---- MODULE Spec2Model ----
(***************************************************************************)
(* WPC RS-485 polling core: protocol codec (core/comunication/protocol.py),*)
(* polling engine (core/communication/polling.py) and serial link          *)
(* (core/communication/serial_comm.py).                                    *)
(*                                                                         *)
(* Characters are byte values 0..255 (latin-1), strings are sequences of   *)
(* byte values.                                                            *)
(***************************************************************************)
EXTENDS Integers, Sequences, FiniteSets, TLC

(***************************************************************************)
(* Bounds of the model                                                     *)
(***************************************************************************)
\* send_command calls in one run
MaxSends == 2

\* successful port reopens in one run
MaxReopen == 1

\* consecutive errors one module may accumulate under Spec
MaxErrors == 3

\* consecutive errors of the bus, and of one module under SpecBus
MaxBusErrors == 11

\* poll_slave calls one task makes under SpecLink
MaxPolls == 2

(***************************************************************************)
(* Program constants                                                       *)
(***************************************************************************)
ASCII_STX == 2

ASCII_ETX == 3

max_retries == 3

max_consecutive_errors == 10

RESPONSE_TIMEOUT == 2000

OFFLINE == "OFFLINE"

ONLINE == "ONLINE"

ERROR == "ERROR"

CLOSED == 0

OPEN == 1

FREE == 0

OCCUPIED == 1

None == <<0>>

\* opcodes as two characters
OpS0 == <<83, 48>>

OpS6 == <<83, 54>>

OpK0 == <<75, 48>>

OpK1 == <<75, 49>>

OpO1 == <<79, 49>>

OpT0 == <<84, 48>>

OpZ9 == <<90, 57>>

(***************************************************************************)
(* Protocol codec                                                          *)
(***************************************************************************)
RECURSIVE SumBytes(_)
SumBytes(s) == IF s = <<>> THEN 0 ELSE Head(s) + SumBytes(Tail(s))

\* one digit 0..15 formatted by the X conversion (uppercase)
HexDigit(d) == IF d < 10 THEN 48 + d ELSE 55 + d

\* an address formatted without the zero padding (f"{address}")
AddressStrNoPad(address) ==
    IF address < 10 THEN <<48 + address>>
    ELSE IF address < 100 THEN <<48 + (address \div 10), 48 + (address % 10)>>
    ELSE <<48 + (address \div 100), 48 + ((address \div 10) % 10), 48 + (address % 10)>>

\* f"{address:02d}"
AddressStr(address) ==
    IF address < 10 THEN <<48, 48 + address>>
    ELSE IF address < 100 THEN <<48 + (address \div 10), 48 + (address % 10)>>
    ELSE <<48 + (address \div 100), 48 + ((address \div 10) % 10), 48 + (address % 10)>>

\* a checksum that leaves the last character (ETX) out of the sum
calculate_checksum_short(command) ==
    IF command = <<>> THEN <<48, 48>>
    ELSE LET checksum_value == SumBytes(SubSeq(command, 1, Len(command) - 1)) % 256
         IN  <<HexDigit(checksum_value \div 16), HexDigit(checksum_value % 16)>>

calculate_checksum(command) ==
    IF command = <<>> THEN <<48, 48>>
    ELSE LET checksum_value == SumBytes(command) % 256
         IN  <<HexDigit(checksum_value \div 16), HexDigit(checksum_value % 16)>>

\* STX + address + opcode + payload + ETX + checksum, the layout every encoder builds
BuildFrame(address, op, payload) ==
    LET command_body == <<ASCII_STX>> \o AddressStr(address) \o op \o payload \o <<ASCII_ETX>>
    IN  command_body \o calculate_checksum(command_body)

read_status(address) == BuildFrame(address, OpS0, <<>>)

continue_sequence(address) == BuildFrame(address, OpK1, <<>>)

stop_sequence(address) == BuildFrame(address, OpK0, <<>>)

ok_download_novelty(address) == BuildFrame(address, OpO1, <<>>)

\* str.upper() on one character (ASCII letters and the latin-1 letters that stay in one byte)
Upper(c) ==
    IF (c >= 97 /\ c <= 122) \/ (c >= 224 /\ c <= 254 /\ c # 247) THEN c - 32 ELSE c

UpperStr(s) == [i \in 1..Len(s) |-> Upper(s[i])]

IsDigit(c) == c >= 48 /\ c <= 57

IsSpace(c) == c \in {9, 10, 11, 12, 13, 28, 29, 30, 31, 32}

\* int(response[1:3]) on a two-character string; -1000 stands for ValueError
ValueError == -1000

ParseInt2(s) ==
    IF IsDigit(s[1]) /\ IsDigit(s[2]) THEN (s[1] - 48) * 10 + (s[2] - 48)
    ELSE IF IsDigit(s[1]) /\ IsSpace(s[2]) THEN s[1] - 48
    ELSE IF (IsSpace(s[1]) \/ s[1] = 43) /\ IsDigit(s[2]) THEN s[2] - 48
    ELSE IF s[1] = 45 /\ IsDigit(s[2]) THEN 0 - (s[2] - 48)
    ELSE ValueError

\* response.find(chr(ETX)) as a 1-based position, 0 when absent
FindETX(response) ==
    IF \E i \in 1..Len(response) : response[i] = ASCII_ETX
    THEN CHOOSE i \in 1..Len(response) :
            /\ response[i] = ASCII_ETX
            /\ \A j \in 1..(i - 1) : response[j] # ASCII_ETX
    ELSE 0

InvalidResult(error) ==
    [valid |-> FALSE, error |-> error, address |-> 0, command |-> <<>>, data |-> <<>>]

validate_response(response, expected_address) ==
    IF Len(response) < 7 THEN InvalidResult("Respuesta muy corta o vacia")
    ELSE IF response[1] # ASCII_STX THEN InvalidResult("STX incorrecto")
    ELSE IF FindETX(response) = 0 THEN InvalidResult("ETX no encontrado")
    ELSE LET etx == FindETX(response)
             received_checksum == SubSeq(response, etx + 1, etx + 2)
             command_body == SubSeq(response, 1, etx)
             calculated_checksum == calculate_checksum(command_body)
             address == ParseInt2(SubSeq(response, 2, 3))
         IN  IF Len(response) < etx + 2 THEN InvalidResult("Checksum faltante")
             ELSE IF UpperStr(received_checksum) # UpperStr(calculated_checksum)
                  THEN InvalidResult("Checksum incorrecto")
             ELSE IF address = ValueError
                  THEN InvalidResult("Direccion invalida en respuesta")
             ELSE IF address # expected_address
                  THEN [InvalidResult("Direccion incorrecta") EXCEPT !.address = address]
             ELSE [valid |-> TRUE, error |-> "", address |-> address,
                   command |-> SubSeq(response, 4, 5),
                   data |-> IF etx > 6 THEN SubSeq(response, 6, etx - 1) ELSE <<>>]

Bit(byte, n) == (byte \div (2 ^ n)) % 2

parse_status_response(response_data) ==
    IF Len(response_data) >= 2
    THEN [barrier_state |-> Bit(response_data[1], 0),
          sensor_ddmm   |-> Bit(response_data[1], 1),
          has_novelty   |-> Bit(response_data[1], 7)]
    ELSE [barrier_state |-> 0, sensor_ddmm |-> 0, has_novelty |-> 0]

get_command_timeout(command_type) ==
    IF command_type \in {OpS0, OpS6} THEN 2000
    ELSE IF command_type \in {OpK1, OpK0, OpO1} THEN 1000
    ELSE IF command_type = OpT0 THEN 3000
    ELSE IF command_type \in {<<79, 53>>, <<79, 54>>, <<79, 56>>, <<79, 57>>} THEN 5000
    ELSE RESPONSE_TIMEOUT

extract_command_type(command) ==
    IF Len(command) >= 5 THEN SubSeq(command, 4, 5) ELSE OpS0

(***************************************************************************)
(* Module registry: database query and ModuleStatus                        *)
(***************************************************************************)
Range(s) == {s[i] : i \in 1..Len(s)}

\* a query ordered by ModuloID alone
RowBeforeById(r1, r2) == r1.ModuloID < r2.ModuloID

\* ORDER BY OrdenEncuesta, ModuloID
RowBefore(r1, r2) ==
    \/ r1.OrdenEncuesta < r2.OrdenEncuesta
    \/ (r1.OrdenEncuesta = r2.OrdenEncuesta /\ r1.ModuloID < r2.ModuloID)

RECURSIVE SortRows(_)
SortRows(rows) ==
    IF rows = {} THEN <<>>
    ELSE LET first == CHOOSE r \in rows : \A o \in rows \ {r} : RowBefore(r, o)
         IN  <<first>> \o SortRows(rows \ {first})

\* rows with a usable RS485 address, in polling order
get_modules_for_polling(rows) == SortRows({r \in rows : r.Address > 0})

NewModuleStatus(module_id, address) ==
    [module_id |-> module_id, address |-> address,
     state |-> OFFLINE, barrier_state |-> CLOSED, sensor_ddmm |-> FREE,
     retry_count |-> 0, consecutive_errors |-> 0,
     pending_commands |-> <<>>, requires_response |-> TRUE]

\* self.modules[module.Address] = ModuleStatus(...) for each row, in query order
load_modules_configuration(rows) ==
    LET loaded == get_modules_for_polling(rows)
    IN  [a \in {loaded[i].Address : i \in 1..Len(loaded)} |->
            LET last_i == CHOOSE i \in 1..Len(loaded) :
                            /\ loaded[i].Address = a
                            /\ \A j \in (i + 1)..Len(loaded) : loaded[j].Address # a
            IN  NewModuleStatus(loaded[last_i].ModuloID, a)]

\* list(self.modules.keys()): a key keeps the place of its first insertion
RECURSIVE DictKeys(_, _)
DictKeys(loaded, seen) ==
    IF loaded = <<>> THEN <<>>
    ELSE IF Head(loaded).Address \in seen THEN DictKeys(Tail(loaded), seen)
    ELSE <<Head(loaded).Address>> \o DictKeys(Tail(loaded), seen \cup {Head(loaded).Address})

\* an enqueue without the membership test
add_pending_command_always(pending_commands, command) == Append(pending_commands, command)

add_pending_command(pending_commands, command) ==
    IF command \in Range(pending_commands) THEN pending_commands
    ELSE Append(pending_commands, command)

\* a pop from the back of the list (pop() instead of pop(0))
get_next_command_last(pending_commands) ==
    IF pending_commands # <<>>
    THEN [command |-> pending_commands[Len(pending_commands)],
          pending |-> SubSeq(pending_commands, 1, Len(pending_commands) - 1)]
    ELSE [command |-> None, pending |-> pending_commands]

get_next_command(pending_commands) ==
    IF pending_commands # <<>>
    THEN [command |-> Head(pending_commands), pending |-> Tail(pending_commands)]
    ELSE [command |-> None, pending |-> pending_commands]

clear_pending_commands(pending_commands) == <<>>

(***************************************************************************)
(* Polling engine.  One tick of _polling_loop is one step; the steps of    *)
(* the handler are operators over a record w:                              *)
(*   m                  the ModuleStatus being polled                      *)
(*   consecutive_errors, port_reopen_count, is_initialized                 *)
(*                      PollingManager / SerialCommunication fields        *)
(*   pubs               publications of module_state_changed in the tick   *)
(*   reopen_calls       calls of SerialCommunication.reopen_port           *)
(*   novelty, ident     _process_novelty ran / extracted an identification *)
(*   k1, o1             add_pending_command called with K1 / O1            *)
(*   movement           a movement was created                             *)
(*   dropped            frames discarded by clear_pending_commands         *)
(*   has_novelty        status['has_novelty'] of the parsed status reply   *)
(***************************************************************************)
\* the keys of PollingManager.event_callbacks
Topics == {"movement_detected", "module_state_changed", "communication_error",
           "novelty_received"}

\* what an awaited callback does: it returns, it raises an Exception, or stop() runs
\* while it is suspended, so that the await raises CancelledError (a BaseException)
HandlerOutcomes == {"returns", "raises", "cancelled"}

\* a loop that gives up at the first callback that raises
continues_only_on_return(outcome) == outcome = "returns"

\* try: await callback(...) except Exception: log_error(...) : the loop goes on to
\* the next callback unless the await raised what except Exception does not catch
continues(outcome) == outcome # "cancelled"

\* for callback in self.event_callbacks[topic], from the i-th callback on; stop()
\* has closed the port (serial_comm.close()) when CancelledError is delivered
RECURSIVE dispatch(_, _, _)
dispatch(w, topic, i) ==
    IF i > Len(w.event_callbacks[topic]) THEN w
    ELSE LET outcome == w.outcomes[topic][i]
             called == [w EXCEPT !.invoked[topic][i] = @ + 1,
                                 !.logged = IF outcome = "raises" THEN @ + 1 ELSE @,
                                 !.cancelled = (outcome = "cancelled"),
                                 !.is_initialized = IF outcome = "cancelled" THEN FALSE
                                                    ELSE @]
         IN  IF continues(outcome) THEN dispatch(called, topic, i + 1) ELSE called

notify_movement_detected(w) ==
    dispatch([w EXCEPT !.movement_pubs = @ + 1], "movement_detected", 1)

notify_module_state_change(w) ==
    dispatch([w EXCEPT !.pubs = @ + 1], "module_state_changed", 1)

\* a reopen that resets the bus counter whether or not the port could be opened
reopen_serial_port_resets(w, reopen_ok) ==
    LET called == [w EXCEPT !.reopen_calls = @ + 1, !.is_initialized = reopen_ok,
                            !.consecutive_errors = 0]
    IN  IF reopen_ok
        THEN [called EXCEPT !.port_reopen_count = @ + 1]
        ELSE called

\* reopen_ok: whether close() + initialize() of the port succeeds
reopen_serial_port(w, reopen_ok) ==
    LET called == [w EXCEPT !.reopen_calls = @ + 1, !.is_initialized = reopen_ok]
    IN  IF reopen_ok
        THEN [called EXCEPT !.consecutive_errors = 0, !.port_reopen_count = @ + 1]
        ELSE called

\* an escalation test that is off by one
EscalationReachedLate(retry_count) == retry_count > max_retries

EscalationReached(retry_count) == retry_count >= max_retries

\* a reopen test that is off by one
ReopenReachedLate(errors) == errors > max_consecutive_errors

ReopenReached(errors) == errors >= max_consecutive_errors

process_communication_error(w, reopen_ok) ==
    LET counted == [w EXCEPT !.m.retry_count = @ + 1,
                             !.consecutive_errors = @ + 1,
                             !.m.consecutive_errors = @ + 1]
        escalated ==
            IF EscalationReached(counted.m.retry_count)
            THEN notify_module_state_change(
                    [counted EXCEPT !.m.state = ERROR,
                                    !.m.retry_count = 0,
                                    !.m.pending_commands = clear_pending_commands(@),
                                    !.dropped = Len(counted.m.pending_commands)])
            ELSE counted
    IN  IF escalated.cancelled THEN escalated
        ELSE IF ReopenReached(escalated.consecutive_errors)
        THEN reopen_serial_port(escalated, reopen_ok)
        ELSE escalated

\* an identification handler that queues the open command as soon as the decision
\* is allowed, before it knows whether the movement was stored
process_identification_open_first(w, access) ==
    IF access \in {"allowed", "create_failed"}
    THEN LET opened == IF w.m.requires_response
                       THEN [w EXCEPT
                                !.m.pending_commands =
                                    add_pending_command(@, continue_sequence(w.m.address)),
                                !.k1 = TRUE]
                       ELSE w
         IN  IF access = "allowed"
             THEN notify_movement_detected([opened EXCEPT !.movement = TRUE])
             ELSE opened
    ELSE w

\* access: outcome of validate_identification / create_movement: "allowed" (allowed
\* and the movement stored), "denied", "create_failed" (allowed, the movement not
\* stored) or "raised" (one of the two raised an Exception, which is caught and logged)
process_identification(w, access) ==
    IF access = "allowed"
    THEN LET created == [w EXCEPT !.movement = TRUE]
         IN  notify_movement_detected(
                 IF created.m.requires_response
                 THEN [created EXCEPT
                          !.m.pending_commands =
                              add_pending_command(@, continue_sequence(created.m.address)),
                          !.k1 = TRUE]
                 ELSE created)
    ELSE w

\* novelty handling that forgets the acknowledgement
process_novelty_no_ack(w, response_data, access) ==
    LET ran == [w EXCEPT !.novelty = TRUE]
    IN  IF Len(response_data) >= 8
        THEN process_identification([ran EXCEPT !.ident = TRUE], access)
        ELSE ran

\* novelty handling that queues the acknowledgement before it processes the identification
process_novelty_ack_first(w, response_data, access) ==
    LET ran == [w EXCEPT !.novelty = TRUE]
    IN  IF Len(response_data) >= 8
        THEN process_identification(
                [ran EXCEPT !.ident = TRUE,
                            !.m.pending_commands =
                                add_pending_command(@, ok_download_novelty(ran.m.address)),
                            !.o1 = TRUE],
                access)
        ELSE ran

process_novelty(w, response_data, access) ==
    LET ran == [w EXCEPT !.novelty = TRUE]
    IN  IF Len(response_data) >= 8
        THEN LET identified == process_identification([ran EXCEPT !.ident = TRUE], access)
             IN  IF identified.cancelled THEN identified
                 ELSE [identified EXCEPT
                          !.m.pending_commands =
                              add_pending_command(@, ok_download_novelty(identified.m.address)),
                          !.o1 = TRUE]
        ELSE ran

process_status_response(w, response_data) ==
    LET status == parse_status_response(response_data)
        updated == [w EXCEPT !.m.barrier_state = status.barrier_state,
                             !.m.sensor_ddmm = status.sensor_ddmm,
                             !.has_novelty = status.has_novelty]
    IN  IF w.m.barrier_state # updated.m.barrier_state
           \/ w.m.sensor_ddmm # updated.m.sensor_ddmm
        THEN notify_module_state_change(updated)
        ELSE updated

process_valid_response(w, validation, access) ==
    IF validation.command \in {OpS0, OpS6}
    THEN LET status_done == process_status_response(w, validation.data)
         IN  IF validation.command = OpS6 /\ ~status_done.cancelled
             THEN process_novelty(status_done, validation.data, access)
             ELSE status_done
    ELSE w

\* a valid reply that leaves the bus error counter alone
analyze_response_keep_bus(w, response, access, reopen_ok) ==
    LET validation == validate_response(response, w.m.address)
    IN  IF ~validation.valid
        THEN process_communication_error(w, reopen_ok)
        ELSE notify_module_state_change(
                process_valid_response(
                    [w EXCEPT !.m.retry_count = 0,
                              !.m.consecutive_errors = 0,
                              !.m.state = ONLINE,
                              !.valid = TRUE,
                              !.op = validation.command],
                    validation, access))

analyze_response(w, response, access, reopen_ok) ==
    LET validation == validate_response(response, w.m.address)
    IN  IF ~validation.valid
        THEN process_communication_error(w, reopen_ok)
        ELSE LET processed ==
                     process_valid_response(
                         [w EXCEPT !.consecutive_errors = 0,
                                   !.m.retry_count = 0,
                                   !.m.consecutive_errors = 0,
                                   !.m.state = ONLINE,
                                   !.valid = TRUE,
                                   !.op = validation.command],
                         validation, access)
             IN  IF processed.cancelled THEN processed
                 ELSE notify_module_state_change(processed)

\* SerialCommunication.poll_slave as the polling engine sees it: the pair
\* (success, response); a port that is not initialised answers without transmitting
NotInitialized == [success |-> FALSE, response |-> <<>>]

\* a poll that puts a queued frame back at the head of the queue when it fails
poll_module_requeue(w, result, access, reopen_ok) ==
    LET popped == get_next_command(w.m.pending_commands)
        command == IF popped.command = None THEN read_status(w.m.address)
                   ELSE popped.command
        sent == [w EXCEPT !.m.pending_commands = popped.pending,
                          !.command = command,
                          !.timeout_ms = get_command_timeout(extract_command_type(command)),
                          !.transmitted = w.is_initialized]
        answer == IF w.is_initialized THEN result ELSE NotInitialized
    IN  IF answer.success /\ answer.response # <<>>
        THEN analyze_response(sent, answer.response, access, reopen_ok)
        ELSE process_communication_error(
                [sent EXCEPT !.m.pending_commands = w.m.pending_commands], reopen_ok)

poll_module(w, result, access, reopen_ok) ==
    LET popped == get_next_command(w.m.pending_commands)
        command == IF popped.command = None THEN read_status(w.m.address)
                   ELSE popped.command
        sent == [w EXCEPT !.m.pending_commands = popped.pending,
                          !.command = command,
                          !.timeout_ms = get_command_timeout(extract_command_type(command)),
                          !.transmitted = w.is_initialized]
        answer == IF w.is_initialized THEN result ELSE NotInitialized
    IN  IF answer.success /\ answer.response # <<>>
        THEN analyze_response(sent, answer.response, access, reopen_ok)
        ELSE process_communication_error(sent, reopen_ok)

\* _poll_module when the codec or poll_slave raises an Exception after the command
\* was taken: except Exception: _process_communication_error(module_status, "", str(e))
poll_module_raises(w, reopen_ok) ==
    LET popped == get_next_command(w.m.pending_commands)
        command == IF popped.command = None THEN read_status(w.m.address)
                   ELSE popped.command
    IN  process_communication_error(
            [w EXCEPT !.m.pending_commands = popped.pending, !.command = command],
            reopen_ok)

\* self.current_module_index = (self.current_module_index + 1) % len(module_addresses)
NextIndex(index, n) == (index + 1) % n

(***************************************************************************)
(* State                                                                   *)
(***************************************************************************)
VARIABLES
    db_modules,            \* rows of the modules table
    module_addresses,      \* list(self.modules.keys()) taken by _polling_loop
    modules,               \* PollingManager.modules: address -> ModuleStatus
    current_module_index,  \* PollingManager.current_module_index
    consecutive_errors,    \* PollingManager.consecutive_errors (bus level)
    port_reopen_count,     \* PollingManager.port_reopen_count
    is_initialized,        \* SerialCommunication.is_initialized
    sends,                 \* number of send_command calls made so far
    last,                  \* what the most recent tick did (observation)
    polled,                \* module ids of the most recent ticks, oldest first
    hist,                  \* per address: what its own most recent tick did
    pc,                    \* per task: its position in poll_slave
    call,                  \* per task: arguments and locals of its poll_slave call
    lock,                  \* SerialCommunication.lock: the task holding it, or NoTask
    port_timeout,          \* serial_port.timeout in ms
    in_buffer,             \* input buffer of the port
    wire,                  \* bytes the module has still to put on the bus
    polls,                 \* per task: poll_slave calls made so far
    codec,                 \* the last call of the protocol codec and what it returned
    app,                   \* WPCApplication: startup and shutdown
    ids,                   \* the last call of IDGenerator and what it returned
    tickets,               \* the tables tck and tckhst and the sessions working on them
    entries,               \* the movements table, the clock and the last presentation
    bus,                   \* PollingManager.event_callbacks and the inputs of the last tick
    snapshot,              \* the dict an observer got from get_all_modules_status
    enqueue                \* per thread: its position in add_pending_command

link_vars == <<pc, call, lock, port_timeout, in_buffer, wire, polls>>

client_vars == <<snapshot, enqueue>>

domain_vars == <<ids, tickets, entries, bus, client_vars>>

env_vars == <<codec, app, domain_vars>>

vars == <<db_modules, module_addresses, modules, current_module_index,
          consecutive_errors, port_reopen_count, is_initialized, sends,
          last, polled, hist, link_vars, env_vars>>

\* no codec call made yet
NoCodec ==
    [fn |-> "none", encoder |-> "none", address |-> 0, frame |-> <<>>, expected |-> 0,
     validation |-> InvalidResult(""), payload |-> <<>>,
     status |-> parse_status_response(<<>>), command_type |-> <<>>, timeout_ms |-> 0,
     read |-> [etx_received |-> FALSE, response |-> <<>>]]

\* WPCApplication() before initialize().  step is the place reached in
\* initialize / start / shutdown, outcome what each startup step did, result what
\* initialize() returned, task the state of polling_task's coroutine
StartupSteps == {"settings", "database", "module_manager", "port", "registry"}

AppCreated ==
    [step |-> "created",
     outcome |-> [s \in StartupSteps |-> "none"],
     result |-> "none",
     db_open |-> FALSE,
     is_running |-> FALSE,
     task |-> "none",
     port_closed |-> FALSE]

\* the application after a startup in which every step succeeded
AppStarted ==
    [AppCreated EXCEPT !.step = "running",
                       !.outcome = [s \in StartupSteps |-> "ok"],
                       !.result = "ok",
                       !.db_open = TRUE,
                       !.is_running = TRUE,
                       !.task = "spawned"]

\* IDGenerator before any call
NoIds == [fn |-> "none",
          now |-> [day |-> 0, hour |-> 0, minute |-> 0, second |-> 0, microsecond |-> 0],
          id |-> 0,
          parsed |-> [valid |-> FALSE, error |-> "", days |-> 0, hours |-> 0,
                      minutes |-> 0, seconds |-> 0, milliseconds |-> 0]]

\* the sessions that work on the ticket tables
Clients == {"c1", "c2"}

NoTicket == [TicketID |-> 0, Numero |-> 0, FechaHoraIngreso |-> 0]

NoTicketResult == [op |-> "none", number |-> 0, success |-> FALSE, duration_minutes |-> 0]

\* a TicketManager call that has not begun
NoSession == [pc |-> "idle", number |-> 0, ticket |-> NoTicket]

\* empty tables.  issued, closed, max_at_issue and seen are observations: the
\* numbers issued in commit order, the numbers closed, the largest number in the
\* tables when the last ticket was committed, and the last call that returned
NoTickets ==
    [active |-> {}, history |-> {}, clock |-> 0, issues |-> 0,
     session |-> [c \in Clients |-> NoSession],
     issued |-> <<>>, closed |-> {}, max_at_issue |-> 0, seen |-> NoTicketResult]

\* None where a PersonaID, a date, a ModuloID or a movement is expected
NoPerson == 0

NoDate == -1

NoModule == 0

NoMovement ==
    [MovimientoID |-> 0, ModuloID |-> NoModule, IdentificacionID |-> 0, FechaHora |-> 0,
     direction |-> ""]

\* AccessResult(allowed, reason, person); person is a PersonaID or NoPerson
AccessResult(allowed, reason, person) ==
    [allowed |-> allowed, reason |-> reason, person |-> person]

\* no presentation yet.  seen is an observation of the last presentation: what was
\* presented where, the decision, the person's last movement of the 48 hours
\* before it, and the movements it created
NoAccess ==
    [movements |-> {}, now |-> 0, presentations |-> 0,
     seen |-> [numero |-> "", module_id |-> 0,
               decision |-> AccessResult(FALSE, "", NoPerson),
               last_before |-> NoMovement, created |-> {}]]

\* PollingManager.event_callbacks after __init__, and no tick made yet
NoSubscribers == [t \in Topics |-> <<>>]

NoBus == [event_callbacks |-> NoSubscribers,
          outcomes |-> NoSubscribers,
          result |-> [success |-> FALSE, response |-> <<>>],
          access |-> "denied"]

\* no call of get_all_modules_status yet.  refs is the dict returned: address ->
\* the ModuleStatus object it refers to (an object is named by its key in
\* PollingManager.modules); contents is what the observer saw in it, field by field
NoSnapshot == [taken |-> FALSE, refs |-> <<>>, contents |-> <<>>, registry_altered |-> FALSE]

\* the threads that call add_pending_command: the one of the polling loop and the
\* one of the operator's send_command
Threads == {"scheduler", "operator"}

\* no add_pending_command call in progress; calls counts the calls made so far
NoEnqueue == [t \in Threads |-> [pc |-> "idle", command |-> <<>>, calls |-> 0]]

DomainInit ==
    /\ ids = NoIds
    /\ tickets = NoTickets
    /\ entries = NoAccess
    /\ bus = NoBus
    /\ snapshot = NoSnapshot
    /\ enqueue = NoEnqueue

\* the polling loop and the operator console (send_command with immediate=True)
Tasks == {"scheduler", "operator"}

NoTask == "none"

\* SerialConfig.reply_timeout
reply_timeout == 2000

\* in_time: the whole reply was in the port before the deadline of the call;
\* deadline: the serial_port.timeout _read_response took as its timeout_seconds
NoCall ==
    [address |-> 0, command |-> <<>>, timeout_ms |-> 0, original_timeout |-> 0,
     response |-> <<>>, etx_received |-> FALSE, expired |-> FALSE,
     success |-> FALSE, in_time |-> FALSE, deadline |-> 0]

\* SerialCommunication after initialize(): nobody polls, the lock is free
LinkInit ==
    /\ pc = [t \in Tasks |-> "idle"]
    /\ call = [t \in Tasks |-> NoCall]
    /\ lock = NoTask
    /\ port_timeout = reply_timeout
    /\ in_buffer = <<>>
    /\ wire = <<>>
    /\ polls = [t \in Tasks |-> 0]

\* module i sits at bus address 2i + 3 (5, 7, ...)
AddressOf(i) == 2 * i + 3

ModuleCounts == {1, 2}

\* equal polling orders (the module id decides) and polling orders against the ids
PollingOrders(n) == {[i \in 1..n |-> 1], [i \in 1..n |-> n + 1 - i]}

\* the modules table: n modules on the bus and one row without a bus address
ConfigurationRows(n, ord) ==
    {[ModuloID |-> i, Address |-> AddressOf(i), OrdenEncuesta |-> ord[i]] : i \in 1..n}
        \cup {[ModuloID |-> n + 1, Address |-> 0, OrdenEncuesta |-> 0]}

Configurations ==
    UNION {{ConfigurationRows(n, ord) : ord \in PollingOrders(n)} : n \in ModuleCounts}

\* last.command is module_status.last_command of the module polled last
NoTick ==
    [address |-> 0, command |-> <<>>, timeout_ms |-> 0, transmitted |-> FALSE,
     was |-> OFFLINE, valid |-> FALSE, op |-> <<>>,
     novelty |-> FALSE, k1 |-> FALSE, o1 |-> FALSE,
     pubs |-> 0, dropped |-> 0, reopen_calls |-> 0, has_novelty |-> 0,
     ident |-> FALSE,
     invoked |-> NoSubscribers, logged |-> 0, cancelled |-> FALSE]

NoHist == [novelty |-> FALSE, ident |-> FALSE, k1 |-> FALSE, window_pubs |-> 0]

Init ==
    /\ db_modules \in Configurations
    /\ modules = load_modules_configuration(db_modules)
    /\ module_addresses = DictKeys(get_modules_for_polling(db_modules), {})
    /\ current_module_index = 0
    /\ consecutive_errors = 0
    /\ port_reopen_count = 0
    /\ is_initialized = TRUE
    /\ sends = 0
    /\ last = NoTick
    /\ polled = <<>>
    /\ hist = [a \in DOMAIN modules |-> NoHist]
    /\ LinkInit
    /\ codec = NoCodec
    /\ app = AppStarted
    /\ DomainInit

(***************************************************************************)
(* Inputs of a tick                                                        *)
(***************************************************************************)
\* an 8-character identification, and the 6 characters of its timestamp
Identification == <<48, 48, 48, 48, 49, 50, 51, 52>>

NoveltyStamp == <<49, 50, 51, 48, 52, 53>>

CorruptChecksum(frame) == [frame EXCEPT ![Len(frame)] = IF @ = 48 THEN 49 ELSE 48]

Timeout == [success |-> FALSE, response |-> <<>>]

\* what a module (or line noise) may put on the bus in answer to a poll of address a
Replies(a) ==
    {BuildFrame(a, OpS0, <<>>),
     BuildFrame(a, OpS6, Identification \o NoveltyStamp),
     BuildFrame(a, OpS6, SubSeq(Identification, 1, 4)),
     BuildFrame(a, OpK1, <<>>),
     BuildFrame(a, OpZ9, <<>>),
     BuildFrame(a + 1, OpS0, <<>>),
     CorruptChecksum(BuildFrame(a, OpS0, <<>>))}

\* the pairs (success, response) poll_slave may return to the polling engine
PollResults(a) ==
    {Timeout} \cup {[success |-> TRUE, response |-> f] : f \in Replies(a)}

AccessOutcomes == {"allowed", "denied", "create_failed"}

\* the access decision is an input only of a tick whose reply carries an identification
IsNoveltyReply(a, result) ==
    /\ result.success
    /\ LET validation == validate_response(result.response, a)
       IN  validation.valid /\ validation.command = OpS6 /\ Len(validation.data) >= 8

Addresses == {AddressOf(i) : i \in 1..2}

\* the inputs of a tick on address a, tabulated for the addresses of the model
TickInputs ==
    [a \in Addresses |->
        {[result |-> r, access |-> acc] : r \in PollResults(a), acc \in AccessOutcomes}
            \ {[result |-> r, access |-> acc] :
                  r \in {x \in PollResults(a) : ~IsNoveltyReply(a, x)},
                  acc \in AccessOutcomes \ {"denied"}}]

\* a bus on which a module either keeps silent or answers its status
BusInputs ==
    [a \in Addresses |->
        {[result |-> r, access |-> "denied"] :
            r \in {Timeout, [success |-> TRUE, response |-> BuildFrame(a, OpS0, <<>>)]}}]

\* the frames a caller of send_command queues: continue and stop sequence
OperatorFrames(a) == {continue_sequence(a), stop_sequence(a)}

(***************************************************************************)
(* Actions                                                                 *)
(***************************************************************************)
StartOfTick(a) ==
    [m |-> modules[a],
     consecutive_errors |-> consecutive_errors,
     port_reopen_count |-> port_reopen_count,
     is_initialized |-> is_initialized,
     command |-> <<>>, timeout_ms |-> 0, transmitted |-> FALSE,
     valid |-> FALSE, op |-> <<>>,
     novelty |-> FALSE, ident |-> FALSE, k1 |-> FALSE, o1 |-> FALSE,
     movement |-> FALSE, pubs |-> 0, dropped |-> 0, reopen_calls |-> 0,
     has_novelty |-> 0,
     event_callbacks |-> bus.event_callbacks,
     outcomes |-> [t \in Topics |-> [i \in DOMAIN bus.event_callbacks[t] |-> "returns"]],
     invoked |-> [t \in Topics |-> [i \in DOMAIN bus.event_callbacks[t] |-> 0]],
     logged |-> 0, cancelled |-> FALSE, movement_pubs |-> 0]

Window(seq, n) == IF Len(seq) > n THEN SubSeq(seq, Len(seq) - n + 1, Len(seq)) ELSE seq

\* one iteration of _polling_loop: _poll_module on the current module, then advance;
\* result is the pair poll_slave returned (the link variables are left to the caller);
\* cap bounds the module's consecutive errors; whether the port reopens is an input
\* only of a tick that can reach the reopen threshold
ReopenOutcomes == IF ReopenReached(consecutive_errors + 1) THEN BOOLEAN ELSE {TRUE}

\* the rest of an iteration of _polling_loop once _poll_module on address a has
\* ended as polled.  A tick in which CancelledError is raised leaves _poll_module
\* and the while loop at once
Routed(a, polled_module, reopen_ok, cap) ==
    /\ \E w \in {polled_module} :
           /\ reopen_ok \/ w.reopen_calls > 0
           /\ w.port_reopen_count <= MaxReopen
           /\ w.consecutive_errors <= MaxBusErrors
           /\ w.m.consecutive_errors <= cap
           /\ modules' = [modules EXCEPT ![a] = w.m]
           /\ consecutive_errors' = w.consecutive_errors
           /\ port_reopen_count' = w.port_reopen_count
           /\ is_initialized' = w.is_initialized
           /\ current_module_index' =
                  IF w.cancelled THEN current_module_index
                  ELSE NextIndex(current_module_index, Len(module_addresses))
           /\ last' = [address |-> a, command |-> w.command,
                       timeout_ms |-> w.timeout_ms, transmitted |-> w.transmitted,
                       was |-> modules[a].state, valid |-> w.valid, op |-> w.op,
                       novelty |-> w.novelty, k1 |-> w.k1, o1 |-> w.o1,
                       pubs |-> w.pubs, dropped |-> w.dropped,
                       reopen_calls |-> w.reopen_calls,
                       has_novelty |-> w.has_novelty,
                       ident |-> w.ident,
                       invoked |-> w.invoked, logged |-> w.logged,
                       cancelled |-> w.cancelled]
           /\ polled' = Window(Append(polled, modules[a].module_id), Len(module_addresses))
           /\ hist' = [hist EXCEPT ![a] =
                          [novelty |-> w.novelty, ident |-> w.ident, k1 |-> w.k1,
                           window_pubs |-> IF w.valid THEN 0
                                           ELSE IF modules[a].retry_count = 0 THEN w.pubs
                                           ELSE @.window_pubs + w.pubs]]
    /\ UNCHANGED <<db_modules, module_addresses, sends>>

\* outcomes: what each subscribed callback does when this tick awaits it
Iteration(result, access, reopen_ok, cap, outcomes) ==
    /\ module_addresses # <<>>
    /\ LET a == module_addresses[current_module_index + 1]
       IN  Routed(a, poll_module([StartOfTick(a) EXCEPT !.outcomes = outcomes],
                                 result, access, reopen_ok),
                  reopen_ok, cap)

\* a tick in which every subscribed callback returns
Tick(result, access, reopen_ok, cap) ==
    /\ Iteration(result, access, reopen_ok, cap,
                 [t \in Topics |-> [i \in DOMAIN bus.event_callbacks[t] |-> "returns"]])
    /\ UNCHANGED env_vars

\* send_command(address, command, immediate=False) for a registered address
SendCommand(address, command) ==
    /\ sends < MaxSends
    /\ address \in DOMAIN modules
    /\ modules' = [modules EXCEPT ![address].pending_commands =
                      add_pending_command(@, command)]
    /\ sends' = sends + 1
    /\ UNCHANGED <<db_modules, module_addresses, current_module_index,
                   consecutive_errors, port_reopen_count, is_initialized,
                   last, polled, hist, link_vars, env_vars>>

PollTick ==
    /\ module_addresses # <<>>
    /\ \E input \in TickInputs[module_addresses[current_module_index + 1]],
          reopen_ok \in ReopenOutcomes :
            Tick(input.result, input.access, reopen_ok, MaxErrors)
    /\ UNCHANGED link_vars

OperatorSend ==
    \E address \in DOMAIN modules : \E command \in OperatorFrames(address) :
        SendCommand(address, command)

Next == PollTick \/ OperatorSend

Spec == Init /\ [][Next]_vars

\* the bus recovery of the polling engine on a bus of silent or answering modules
BusTick ==
    /\ module_addresses # <<>>
    /\ \E input \in BusInputs[module_addresses[current_module_index + 1]],
          reopen_ok \in ReopenOutcomes :
            Tick(input.result, input.access, reopen_ok, MaxBusErrors)
    /\ UNCHANGED link_vars

NextBus == BusTick

SpecBus == Init /\ [][NextBus]_vars

\* status bytes with the novelty bit: barrier closed and free, barrier open and occupied
NoveltyStatus == {<<128, 48>>, <<131, 48>>}

\* replies that report events: status with the novelty bit set, S6 with and without
\* an identification, and acknowledgements and opcodes the engine does not know
EventReplies(a) ==
    {BuildFrame(a, OpS0, payload) : payload \in NoveltyStatus \cup {<<48, 48>>}}
        \cup {BuildFrame(a, OpS6, <<>>),
              BuildFrame(a, OpS6, Identification \o NoveltyStamp),
              BuildFrame(a, OpK1, <<>>),
              BuildFrame(a, OpZ9, <<>>),
              BuildFrame(a, OpT0, <<>>)}

EventInputs ==
    [a \in Addresses |->
        {[result |-> r, access |-> "denied"] :
            r \in {Timeout} \cup {[success |-> TRUE, response |-> f] : f \in EventReplies(a)}}
          \cup {[result |-> [success |-> TRUE,
                             response |-> BuildFrame(a, OpS6, Identification \o NoveltyStamp)],
                 access |-> "allowed"]}]

\* the polling engine on a bus whose modules report events
EventTick ==
    /\ module_addresses # <<>>
    /\ \E input \in EventInputs[module_addresses[current_module_index + 1]] :
            Tick(input.result, input.access, TRUE, MaxErrors)
    /\ UNCHANGED link_vars

NextEvents == EventTick

SpecEvents == Init /\ [][NextEvents]_vars

(***************************************************************************)
(* Serial link: poll_slave step by step, called by the polling loop and by *)
(* send_command(immediate=True), with the module answering on the wire     *)
(***************************************************************************)
\* the status bytes of an S0 reply
StatusPayload == <<48, 48>>

\* the well-formed frame a module answers to a command: the opcode it was sent,
\* with the status bytes after S0
ReplyTo(address, command) ==
    LET op == extract_command_type(command)
    IN  BuildFrame(address, op, IF op = OpS0 THEN StatusPayload ELSE <<>>)

\* a module answers the frame it was sent or keeps silent
ModuleReplies(address, command) == {<<>>, ReplyTo(address, command)}

\* a lock that never blocks
LockAlwaysFree(holder) == TRUE

\* with self.lock: the lock can be taken when nobody holds it
LockFree(holder) == holder = NoTask

\* an immediate send that does not wait for the reply
no_response_immediate(t) == t = "operator"

\* the no_response argument of poll_slave: neither _poll_module nor send_command
\* passes it, so it keeps its default
no_response(t) == FALSE

\* poll_slave(command, timeout_ms) entered by task t; without an open port it
\* returns (False, ...) at once
CallPoll(t, address, command, timeout_ms) ==
    /\ pc[t] = "idle"
    /\ polls[t] < MaxPolls
    /\ polls' = [polls EXCEPT ![t] = @ + 1]
    /\ call' = [call EXCEPT ![t] = [NoCall EXCEPT !.address = address,
                                                  !.command = command,
                                                  !.timeout_ms = timeout_ms]]
    /\ pc' = [pc EXCEPT ![t] = IF is_initialized THEN "set_timeout" ELSE "return"]
    /\ UNCHANGED <<lock, port_timeout, in_buffer, wire>>

sched_vars == <<db_modules, module_addresses, modules, current_module_index,
                consecutive_errors, port_reopen_count, is_initialized, sends,
                last, polled, hist>>

\* _poll_module up to its call of poll_slave: the head of the queue or S0, with the
\* timeout of its command type (the queue itself is popped by Tick at the return)
SchedulerPolls ==
    /\ module_addresses # <<>>
    /\ LET a == module_addresses[current_module_index + 1]
           popped == get_next_command(modules[a].pending_commands)
           command == IF popped.command = None THEN read_status(a) ELSE popped.command
       IN  CallPoll("scheduler", a, command,
                    get_command_timeout(extract_command_type(command)))
    /\ UNCHANGED <<sched_vars, env_vars>>

\* send_command(address, command, immediate=True): poll_slave(command), no timeout_ms
OperatorPolls ==
    /\ \E address \in DOMAIN modules :
          CallPoll("operator", address, continue_sequence(address), 0)
    /\ UNCHANGED <<sched_vars, env_vars>>

\* original_timeout = serial_port.timeout; if timeout_ms: serial_port.timeout = ...
SetTimeout(t) ==
    /\ pc[t] = "set_timeout"
    /\ call' = [call EXCEPT ![t].original_timeout = port_timeout]
    /\ port_timeout' = IF call[t].timeout_ms # 0 THEN call[t].timeout_ms ELSE port_timeout
    /\ pc' = [pc EXCEPT ![t] = "acquire"]
    /\ UNCHANGED <<sched_vars, env_vars, lock, in_buffer, wire, polls>>

Acquire(t) ==
    /\ pc[t] = "acquire"
    /\ LockFree(lock)
    /\ lock' = t
    /\ pc' = [pc EXCEPT ![t] = "reset"]
    /\ UNCHANGED <<sched_vars, env_vars, call, port_timeout, in_buffer, wire, polls>>

\* reset_input_buffer(); reset_output_buffer()
ResetBuffers(t) ==
    /\ pc[t] = "reset"
    /\ in_buffer' = <<>>
    /\ pc' = [pc EXCEPT ![t] = "write"]
    /\ UNCHANGED <<sched_vars, env_vars, call, lock, port_timeout, wire, polls>>

\* enable_transmitter(); write(); flush(); disable_transmitter(): the frame is on
\* the bus and the addressed module starts its answer, or keeps silent; with
\* no_response the call succeeds at once and leaves the with block
Write(t) ==
    /\ pc[t] = "write"
    /\ \E reply \in ModuleReplies(call[t].address, call[t].command) :
          wire' = wire \o reply
    /\ IF no_response(t)
       THEN /\ call' = [call EXCEPT ![t].success = TRUE]
            /\ lock' = NoTask
            /\ pc' = [pc EXCEPT ![t] = "restore"]
       ELSE /\ call' = [call EXCEPT ![t].deadline = port_timeout]
            /\ pc' = [pc EXCEPT ![t] = "read"]
            /\ UNCHANGED lock
    /\ UNCHANGED <<sched_vars, env_vars, port_timeout, in_buffer, polls>>

\* the reader of task t is in _read_response with its deadline ahead
Reading(t) == pc[t] = "read" /\ ~call[t].etx_received /\ ~call[t].expired

\* the bytes on the wire reach the port together, or first those through ETX
Bursts(bytes) == {Len(bytes)} \cup {n \in {FindETX(bytes)} : n > 0}

\* a burst of the module's answer reaches the port
BytesArrive ==
    /\ wire # <<>>
    /\ \E n \in Bursts(wire) :
          /\ in_buffer' = in_buffer \o SubSeq(wire, 1, n)
          /\ wire' = SubSeq(wire, n + 1, Len(wire))
    /\ call' = [t \in Tasks |->
                  IF /\ Reading(t)
                     /\ call[t].response \o in_buffer' = ReplyTo(call[t].address, call[t].command)
                  THEN [call[t] EXCEPT !.in_time = TRUE]
                  ELSE call[t]]
    /\ UNCHANGED <<sched_vars, env_vars, pc, lock, port_timeout, polls>>

\* _read_response, one iteration with in_waiting > 0: read(1), append, test for ETX
ReadByte(t) ==
    /\ Reading(t)
    /\ in_buffer # <<>>
    /\ call' = [call EXCEPT ![t].response = Append(@, Head(in_buffer)),
                            ![t].etx_received = (Head(in_buffer) = ASCII_ETX)]
    /\ in_buffer' = Tail(in_buffer)
    /\ UNCHANGED <<sched_vars, env_vars, pc, lock, port_timeout, wire, polls>>

\* _read_response, iterations with nothing waiting: sleep until the deadline
DeadlineExpires(t) ==
    /\ Reading(t)
    /\ in_buffer = <<>>
    /\ call' = [call EXCEPT ![t].expired = TRUE]
    /\ UNCHANGED <<sched_vars, env_vars, pc, lock, port_timeout, in_buffer, wire, polls>>

\* the loop of _read_response ends: return etx_received, response; the lock is released
ReadReturn(t) ==
    /\ pc[t] = "read"
    /\ call[t].etx_received \/ call[t].expired
    /\ call' = [call EXCEPT ![t].success = call[t].etx_received]
    /\ lock' = NoTask
    /\ pc' = [pc EXCEPT ![t] = "restore"]
    /\ UNCHANGED <<sched_vars, env_vars, port_timeout, in_buffer, wire, polls>>

\* finally: if timeout_ms and self.serial_port: serial_port.timeout = original_timeout
RestoreTimeout(t) ==
    /\ pc[t] = "restore"
    /\ port_timeout' = IF call[t].timeout_ms # 0 /\ is_initialized
                       THEN call[t].original_timeout
                       ELSE port_timeout
    /\ pc' = [pc EXCEPT ![t] = "return"]
    /\ UNCHANGED <<sched_vars, env_vars, call, lock, in_buffer, wire, polls>>

\* poll_slave returns to _poll_module, which routes the pair and ends the tick
SchedulerReturns ==
    /\ pc["scheduler"] = "return"
    /\ Tick([success |-> call["scheduler"].success,
             response |-> call["scheduler"].response], "denied", TRUE, MaxBusErrors)
    /\ pc' = [pc EXCEPT !["scheduler"] = "idle"]
    /\ UNCHANGED <<call, lock, port_timeout, in_buffer, wire, polls>>

\* poll_slave returns to send_command, which returns success
OperatorReturns ==
    /\ pc["operator"] = "return"
    /\ pc' = [pc EXCEPT !["operator"] = "idle"]
    /\ UNCHANGED <<sched_vars, env_vars, call, lock, port_timeout, in_buffer, wire, polls>>

PollStep(t) ==
    \/ SetTimeout(t)
    \/ Acquire(t)
    \/ ResetBuffers(t)
    \/ Write(t)
    \/ ReadByte(t)
    \/ DeadlineExpires(t)
    \/ ReadReturn(t)
    \/ RestoreTimeout(t)

NextLink ==
    \/ SchedulerPolls
    \/ OperatorPolls
    \/ \E t \in Tasks : PollStep(t)
    \/ BytesArrive
    \/ SchedulerReturns
    \/ OperatorReturns

\* one module on the bus
InitLink == Init /\ Len(module_addresses) = 1

SpecLink == InitLink /\ [][NextLink]_vars

\* send_command(address, K1, immediate=False) before the first poll: the frame the
\* scheduler will send with the timeout of its command type
QueueContinue ==
    /\ sends = 0
    /\ \A t \in Tasks : polls[t] = 0
    /\ \E address \in DOMAIN modules : SendCommand(address, continue_sequence(address))

NextTimeouts ==
    \/ QueueContinue
    \/ SchedulerPolls
    \/ OperatorPolls
    \/ \E t \in Tasks : PollStep(t)
    \/ BytesArrive
    \/ SchedulerReturns
    \/ OperatorReturns

\* the link polled by a scheduler whose module has queued commands, which carry a
\* timeout other than reply_timeout, and by immediate sends
SpecTimeouts == InitLink /\ [][NextTimeouts]_vars

(***************************************************************************)
(* Protocol codec on its own: the encoders, validate_response,             *)
(* parse_status_response and the deadline the scheduler derives            *)
(***************************************************************************)
\* the addresses validate_module_configuration accepts: 1 <= address <= 255
MaxAddress == 255

\* the expected addresses a frame is validated against: 0..MaxExpected
MaxExpected == 100

Encoders == {"read_status", "continue_sequence", "stop_sequence", "ok_download_novelty"}

Encode(encoder, address) ==
    IF encoder = "read_status" THEN read_status(address)
    ELSE IF encoder = "continue_sequence" THEN continue_sequence(address)
    ELSE IF encoder = "stop_sequence" THEN stop_sequence(address)
    ELSE ok_download_novelty(address)

\* the opcode each encoder writes into its frame
OpcodeOf(encoder) ==
    IF encoder = "read_status" THEN OpS0
    ELSE IF encoder = "continue_sequence" THEN OpK1
    ELSE IF encoder = "stop_sequence" THEN OpK0
    ELSE OpO1

\* str.lower() on a hexadecimal digit
LowerHex(c) == IF c >= 65 /\ c <= 70 THEN c + 32 ELSE c

\* what a line may deliver in place of a well-formed frame f: the frame itself, its
\* checksum in lowercase, bytes after the checksum, a wrong or missing checksum
\* digit, a missing STX, and an ETX inside the payload
Variants(f) ==
    LET n == Len(f)
    IN  {f,
         [f EXCEPT ![n - 1] = LowerHex(@), ![n] = LowerHex(@)],
         f \o <<48>>,
         f \o <<13, 10>>,
         [f EXCEPT ![n] = IF @ = 48 THEN 49 ELSE 48],
         [f EXCEPT ![n - 1] = IF @ = 48 THEN 49 ELSE 48],
         SubSeq(f, 1, n - 1),
         SubSeq(f, 1, n - 2),
         Tail(f),
         <<>>}

ReceivedAddresses == {5, 42, 99}

ReceivedPayloads == {<<>>, <<48, 48>>, <<202, 254>>, <<48, ASCII_ETX, 48>>, Identification}

\* byte sequences handed to validate_response
ReceivedFrames ==
    UNION {Variants(BuildFrame(a, op, payload)) :
              a \in ReceivedAddresses, op \in {OpS0, OpS6, OpK1}, payload \in ReceivedPayloads}

\* status payloads of no, one and two bytes
StatusPayloads ==
    {<<>>} \cup {<<b>> : b \in {0, 1, 2, 3, 48, 128, 131, 255}}
           \cup {<<b, 48>> : b \in {0, 1, 2, 3, 48, 128, 131, 255}}

\* one of the encoders builds the frame for an address the configuration accepts
\* (each run of the codec makes one call and applies the follow-up calls to its result)
EncodeFrame ==
    /\ codec.fn = "none"
    /\ \E encoder \in Encoders, address \in 1..MaxAddress :
          codec' = [NoCodec EXCEPT !.fn = "encode", !.encoder = encoder,
                                   !.address = address,
                                   !.frame = Encode(encoder, address)]
    /\ UNCHANGED <<sched_vars, link_vars, app, domain_vars>>

\* a byte sequence arrives from the line
ReceiveFrame ==
    /\ codec.fn = "none"
    /\ \E f \in ReceivedFrames :
          codec' = [NoCodec EXCEPT !.fn = "receive", !.frame = f]
    /\ UNCHANGED <<sched_vars, link_vars, app, domain_vars>>

\* validate_response(frame, expected) on the frame just built or received
ValidateFrame ==
    /\ codec.fn \in {"encode", "receive"}
    /\ \E expected \in 0..MaxExpected :
          codec' = [codec EXCEPT !.fn = "validate", !.expected = expected,
                                 !.validation = validate_response(codec.frame, expected)]
    /\ UNCHANGED <<sched_vars, link_vars, app, domain_vars>>

\* _poll_module: the read deadline of the frame about to be sent
DeriveTimeout ==
    /\ codec.fn = "encode"
    /\ codec' = [codec EXCEPT
                    !.fn = "timeout",
                    !.command_type = extract_command_type(codec.frame),
                    !.timeout_ms = get_command_timeout(extract_command_type(codec.frame))]
    /\ UNCHANGED <<sched_vars, link_vars, app, domain_vars>>

\* parse_status_response(payload)
ParseStatus ==
    /\ codec.fn = "none"
    /\ \E payload \in StatusPayloads :
          codec' = [NoCodec EXCEPT !.fn = "parse_status", !.payload = payload,
                                   !.status = parse_status_response(payload)]
    /\ UNCHANGED <<sched_vars, link_vars, app, domain_vars>>

NextCodec == EncodeFrame \/ ReceiveFrame \/ ValidateFrame \/ DeriveTimeout \/ ParseStatus

SpecCodec == InitLink /\ [][NextCodec]_vars

(***************************************************************************)
(* A status reply through _read_response, validate_response and            *)
(* parse_status_response                                                   *)
(***************************************************************************)
\* _read_response when every byte of the answer is in the port before the deadline:
\* read(1) byte by byte, stop at the first byte whose value is 0x03
read_response(bytes) ==
    LET n == FindETX(bytes)
    IN  IF n > 0 THEN [etx_received |-> TRUE, response |-> SubSeq(bytes, 1, n)]
        ELSE [etx_received |-> FALSE, response |-> bytes]

\* a module answers S0 with a status payload: STX AA S0 p ETX CS1 CS2
StatusReply ==
    /\ codec.fn = "none"
    /\ \E address \in ReceivedAddresses, payload \in StatusPayloads :
          codec' = [NoCodec EXCEPT !.fn = "reply", !.address = address,
                                   !.payload = payload,
                                   !.frame = BuildFrame(address, OpS0, payload)]
    /\ UNCHANGED <<sched_vars, link_vars, app, domain_vars>>

\* poll_slave reads the answer
ReadReply ==
    /\ codec.fn = "reply"
    /\ codec' = [codec EXCEPT !.fn = "read", !.read = read_response(codec.frame)]
    /\ UNCHANGED <<sched_vars, link_vars, app, domain_vars>>

\* validate_response on the frame the module sent, for the polled address
ValidateReply ==
    /\ codec.fn = "read"
    /\ codec' = [codec EXCEPT !.fn = "framed", !.expected = codec.address,
                              !.validation = validate_response(codec.frame, codec.address)]
    /\ UNCHANGED <<sched_vars, link_vars, app, domain_vars>>

\* _process_status_response: parse_status_response(validation['data'])
ParseReply ==
    /\ codec.fn = "framed"
    /\ codec.validation.valid
    /\ codec' = [codec EXCEPT !.fn = "parsed",
                              !.status = parse_status_response(codec.validation.data)]
    /\ UNCHANGED <<sched_vars, link_vars, app, domain_vars>>

NextFraming == StatusReply \/ ReadReply \/ ValidateReply \/ ParseReply

SpecFraming == InitLink /\ [][NextFraming]_vars

(***************************************************************************)
(* Startup and shutdown: WPCApplication.initialize, start_console_mode /   *)
(* start_gui_mode up to polling_manager.start(), and shutdown.             *)
(***************************************************************************)
\* errors of validate_module_configuration for one row (the name falls back to
\* Module_<id> and is never empty)
validate_module_configuration(r) ==
    {e \in {"module_id"} : r.ModuloID <= 0}
        \cup {e \in {"address"} : ~(1 <= r.Address /\ r.Address <= MaxAddress)}

\* _validate_all_modules: the errors of every row, and duplicated bus addresses
validate_all_modules(rows) ==
    UNION {validate_module_configuration(r) : r \in rows}
        \cup {e \in {"duplicate"} :
                \E r1, r2 \in rows : r1 # r2 /\ r1.Address > 0 /\ r1.Address = r2.Address}

\* the modules table at startup: a valid one, two modules sharing an address, an
\* address above 255, and a module id that is not positive
StartupTables ==
    {{[ModuloID |-> 1, Address |-> 5, OrdenEncuesta |-> 1],
      [ModuloID |-> 2, Address |-> 7, OrdenEncuesta |-> 1]},
     {[ModuloID |-> 1, Address |-> 5, OrdenEncuesta |-> 1],
      [ModuloID |-> 2, Address |-> 5, OrdenEncuesta |-> 1]},
     {[ModuloID |-> 1, Address |-> 5, OrdenEncuesta |-> 1],
      [ModuloID |-> 2, Address |-> MaxAddress + 1, OrdenEncuesta |-> 1]},
     {[ModuloID |-> 0, Address |-> 7, OrdenEncuesta |-> 1]}}

InitLifecycle ==
    /\ db_modules \in StartupTables
    /\ modules = load_modules_configuration({})
    /\ module_addresses = <<>>
    /\ current_module_index = 0
    /\ consecutive_errors = 0
    /\ port_reopen_count = 0
    /\ is_initialized = FALSE
    /\ sends = 0
    /\ last = NoTick
    /\ polled = <<>>
    /\ hist = [a \in DOMAIN modules |-> NoHist]
    /\ LinkInit
    /\ codec = NoCodec
    /\ app = AppCreated
    /\ DomainInit

engine_vars == <<db_modules, module_addresses, modules, current_module_index,
                 consecutive_errors, port_reopen_count, sends, last, polled, hist>>

StartupFails(s) ==
    [app EXCEPT !.outcome[s] = "failed", !.step = "failed", !.result = "error"]

\* 2. settings.validate_configuration(): return False on any error
ValidateSettings ==
    /\ app.step = "created"
    /\ \E ok \in BOOLEAN :
          app' = IF ok THEN [app EXCEPT !.outcome["settings"] = "ok", !.step = "database"]
                 ELSE StartupFails("settings")
    /\ UNCHANGED <<engine_vars, is_initialized, link_vars, codec, domain_vars>>

\* 4. init_database(): return False when the connection fails
InitDatabase ==
    /\ app.step = "database"
    /\ \E ok \in BOOLEAN :
          app' = IF ok THEN [app EXCEPT !.outcome["database"] = "ok", !.db_open = TRUE,
                                        !.step = "module_manager"]
                 ELSE StartupFails("database")
    /\ UNCHANGED <<engine_vars, is_initialized, link_vars, codec, domain_vars>>

\* 5. ModuleManager().initialize(): False only when the table cannot be read; the
\* validation errors are logged as warnings and the initialization goes on
ModuleManagerInitialize ==
    /\ app.step = "module_manager"
    /\ \E loaded \in BOOLEAN :
          app' = IF loaded THEN [app EXCEPT !.outcome["module_manager"] = "ok",
                                            !.step = "polling"]
                 ELSE StartupFails("module_manager")
    /\ UNCHANGED <<engine_vars, is_initialized, link_vars, codec, domain_vars>>

\* 6. PollingManager.initialize(): False when the port does not open; then
\* _load_modules_configuration(), whose query returns [] on an exception and which
\* catches every exception itself; initialize() returns True after it
PollingInitialize ==
    /\ app.step = "polling"
    /\ \E port_ok \in BOOLEAN, query_ok \in BOOLEAN :
          IF ~port_ok
          THEN /\ app' = StartupFails("port")
               /\ UNCHANGED <<modules, module_addresses, hist, is_initialized>>
          ELSE LET rows == IF query_ok THEN db_modules ELSE {}
               IN  /\ is_initialized' = TRUE
                   /\ modules' = load_modules_configuration(rows)
                   /\ module_addresses' = DictKeys(get_modules_for_polling(rows), {})
                   /\ hist' = [a \in DOMAIN modules' |-> NoHist]
                   /\ app' = [app EXCEPT !.outcome["port"] = "ok",
                                         !.outcome["registry"] =
                                             IF query_ok THEN "ok" ELSE "failed",
                                         !.result = "ok",
                                         !.step = "initialized"]
    /\ UNCHANGED <<db_modules, current_module_index, consecutive_errors,
                   port_reopen_count, sends, last, polled, link_vars, codec, domain_vars>>

\* polling_manager.start(): nothing when already running or without an open port,
\* else is_running = True and create_task(_polling_loop())
Start ==
    /\ app.step = "initialized"
    /\ app' = IF app.is_running \/ ~is_initialized
              THEN [app EXCEPT !.step = "running"]
              ELSE [app EXCEPT !.is_running = TRUE, !.task = "spawned",
                               !.step = "running"]
    /\ UNCHANGED <<engine_vars, is_initialized, link_vars, codec, domain_vars>>

\* what the bus answers to a poll during the run
StartupResults(a) == {Timeout, [success |-> TRUE, response |-> BuildFrame(a, OpS0, <<>>)]}

\* one iteration of _polling_loop of the spawned task
SchedulerTick ==
    /\ app.task = "spawned"
    /\ app.is_running
    /\ module_addresses # <<>>
    /\ \E result \in StartupResults(module_addresses[current_module_index + 1]) :
          Tick(result, "denied", TRUE, MaxErrors)
    /\ UNCHANGED link_vars

\* PollingManager.stop(): nothing unless running; else is_running = False,
\* polling_task.cancel() without waiting for the task, serial_comm.close()
stop(a) ==
    IF ~a.is_running THEN a
    ELSE [a EXCEPT !.is_running = FALSE,
                   !.task = IF @ = "spawned" THEN "cancelling" ELSE @,
                   !.port_closed = TRUE]

\* WPCApplication.shutdown(): polling_manager.stop(), then close_database()
Shutdown ==
    /\ app.step \in {"initialized", "running"}
    /\ app' = [stop(app) EXCEPT !.db_open = FALSE, !.step = "stopped"]
    /\ is_initialized' = IF app.is_running THEN FALSE ELSE is_initialized
    /\ UNCHANGED <<engine_vars, link_vars, codec, domain_vars>>

\* the event loop delivers CancelledError to _polling_loop, which returns
TaskCancelled ==
    /\ app.task = "cancelling"
    /\ app' = [app EXCEPT !.task = "done"]
    /\ UNCHANGED <<engine_vars, is_initialized, link_vars, codec, domain_vars>>

NextLifecycle ==
    \/ ValidateSettings
    \/ InitDatabase
    \/ ModuleManagerInitialize
    \/ PollingInitialize
    \/ Start
    \/ SchedulerTick
    \/ Shutdown
    \/ TaskCancelled

SpecLifecycle == InitLifecycle /\ [][NextLifecycle]_vars

\* send_command(address, command, immediate=True) for a registered address:
\* serial_comm.poll_slave(command), whose (success, response) decides the value
\* returned; poll_slave writes the frame only on an initialised port.  The engine
\* state is not touched; last records the frame and whether it was written
SendImmediate ==
    /\ sends < MaxSends
    /\ \E address \in DOMAIN modules : \E command \in OperatorFrames(address) :
          last' = [NoTick EXCEPT !.address = address, !.command = command,
                                 !.transmitted = is_initialized]
    /\ sends' = sends + 1
    /\ UNCHANGED <<db_modules, module_addresses, modules, current_module_index,
                   consecutive_errors, port_reopen_count, is_initialized,
                   polled, hist, link_vars, env_vars>>

NextStopped ==
    \/ ValidateSettings
    \/ InitDatabase
    \/ ModuleManagerInitialize
    \/ PollingInitialize
    \/ Start
    \/ SchedulerTick
    \/ Shutdown
    \/ TaskCancelled
    \/ SendImmediate

\* the application from construction to shutdown with an operator who sends
\* immediate commands
SpecStopped == InitLifecycle /\ [][NextStopped]_vars

(***************************************************************************)
(* stop() while poll_slave calls are in progress                           *)
(***************************************************************************)
\* PollingManager.stop() called from the operator's side while the polling task
\* runs: is_running = False, polling_task.cancel(), serial_comm.close().  close()
\* does not take self.lock: serial_port = None, is_initialized = False at once
StopPolling ==
    /\ app.is_running
    /\ pc["operator"] = "idle"
    /\ app' = stop(app)
    /\ is_initialized' = FALSE
    /\ UNCHANGED <<engine_vars, link_vars, codec, domain_vars>>

\* a step of poll_slave that uses self.serial_port after close() set it to None
\* raises: before the try block the exception leaves poll_slave, inside it the
\* except branch (or the one of _read_response) ends the call with success False
\* and the with block releases the lock
PortGone(t) ==
    /\ ~is_initialized
    /\ \/ /\ pc[t] = "set_timeout"
          /\ pc' = [pc EXCEPT ![t] = "return"]
          /\ UNCHANGED <<call, lock>>
       \/ /\ pc[t] \in {"reset", "write"} \/ Reading(t)
          /\ call' = [call EXCEPT ![t].success = FALSE]
          /\ lock' = NoTask
          /\ pc' = [pc EXCEPT ![t] = "restore"]
    /\ UNCHANGED <<sched_vars, env_vars, port_timeout, in_buffer, wire, polls>>

\* while self.is_running: the loop polls only while the manager runs
RunningPolls == app.is_running /\ SchedulerPolls

NextClose ==
    \/ RunningPolls
    \/ OperatorPolls
    \/ StopPolling
    \/ \E t \in Tasks : is_initialized /\ PollStep(t)
    \/ \E t \in Tasks : ~is_initialized /\ (Acquire(t) \/ ReadReturn(t) \/ RestoreTimeout(t))
    \/ \E t \in Tasks : PortGone(t)
    \/ BytesArrive
    \/ SchedulerReturns
    \/ OperatorReturns

SpecClose == InitLink /\ [][NextClose]_vars

(***************************************************************************)
(* Subscription bus: subscribe_to_event and the callbacks a tick awaits    *)
(***************************************************************************)
\* subscribe_to_event calls in one run
MaxSubscriptions == 2

\* the event types callers subscribe to: the two topics the engine publishes and one
\* that is no key of event_callbacks
EventTypes == {"movement_detected", "module_state_changed", "door_forced"}

\* if event_type in self.event_callbacks: self.event_callbacks[event_type].append(callback)
subscribe_to_event(event_callbacks, event_type, callback) ==
    IF event_type \in DOMAIN event_callbacks
    THEN [event_callbacks EXCEPT ![event_type] = Append(@, callback)]
    ELSE event_callbacks

RECURSIVE SumLen(_, _)
SumLen(f, keys) ==
    IF keys = {} THEN 0
    ELSE LET k == CHOOSE x \in keys : TRUE IN Len(f[k]) + SumLen(f, keys \ {k})

Subscribed == SumLen(bus.event_callbacks, Topics)

Subscribe ==
    /\ Subscribed < MaxSubscriptions
    /\ \E event_type \in EventTypes :
          bus' = [bus EXCEPT !.event_callbacks =
                                subscribe_to_event(@, event_type, "callback")]
    /\ UNCHANGED <<sched_vars, link_vars, codec, app, ids, tickets, entries, client_vars>>

\* what the callbacks subscribed at this moment can do in one tick
OutcomesOfTick ==
    {[t \in Topics |-> IF t = "movement_detected" THEN movement
                       ELSE IF t = "module_state_changed" THEN state
                       ELSE [i \in DOMAIN bus.event_callbacks[t] |-> "returns"]] :
        movement \in [DOMAIN bus.event_callbacks["movement_detected"] -> HandlerOutcomes],
        state \in [DOMAIN bus.event_callbacks["module_state_changed"] -> HandlerOutcomes]}

\* what the bus answers to a poll while callbacks are subscribed
SubscriberInputs ==
    [a \in Addresses |->
        {[result |-> r, access |-> "denied"] :
            r \in {Timeout,
                   [success |-> TRUE, response |-> BuildFrame(a, OpS0, <<48, 48>>)],
                   [success |-> TRUE,
                    response |-> BuildFrame(a, OpS6, Identification \o NoveltyStamp)]}}
          \cup {[result |-> [success |-> TRUE,
                             response |-> BuildFrame(a, OpS6, Identification \o NoveltyStamp)],
                 access |-> acc] : acc \in {"allowed", "create_failed", "raised"}}]

\* one iteration of _polling_loop while the task runs; a callback during whose await
\* stop() ran ends the task: is_running = False, the port closed, the loop left
SubscriberTick ==
    /\ app.is_running
    /\ app.task = "spawned"
    /\ module_addresses # <<>>
    /\ \E input \in SubscriberInputs[module_addresses[current_module_index + 1]],
          outcomes \in OutcomesOfTick :
            /\ Iteration(input.result, input.access, TRUE, MaxErrors, outcomes)
            /\ bus' = [bus EXCEPT !.outcomes = outcomes, !.result = input.result,
                                  !.access = input.access]
    /\ app' = IF last'.cancelled THEN [stop(app) EXCEPT !.task = "done"] ELSE app
    /\ UNCHANGED <<link_vars, codec, ids, tickets, entries, client_vars>>

\* stop() between two ticks: the task is suspended in asyncio.sleep(polling_interval)
StopBetweenTicks ==
    /\ app.is_running
    /\ app' = [stop(app) EXCEPT !.task = "done"]
    /\ is_initialized' = FALSE
    /\ UNCHANGED <<engine_vars, link_vars, codec, domain_vars>>

NextSubscribers == Subscribe \/ SubscriberTick \/ StopBetweenTicks

SpecSubscribers == InitLink /\ [][NextSubscribers]_vars

(***************************************************************************)
(* The scheduler loop under failing polls                                  *)
(***************************************************************************)
\* what the codec or the serial layer may raise inside _poll_module
PollExceptions == {"SerialException", "ValueError"}

\* a handler that catches the errors of the serial layer only
except_serial_only(e) == e = "SerialException"

\* except Exception as e: of _poll_module
except_Exception(e) == e # "CancelledError"

Least(x, y) == IF x < y THEN x ELSE y

\* the bus error counter is only compared with max_consecutive_errors (>=); the
\* module error counter and the reopen count are only reported by
\* get_polling_statistics: they are kept within bounds
Saturated(w) ==
    [w EXCEPT !.consecutive_errors = Least(@, max_consecutive_errors),
              !.m.consecutive_errors = Least(@, max_retries),
              !.port_reopen_count = Least(@, MaxReopen)]

\* what poll_slave returns on a failing bus: silence, a reply with a bad checksum,
\* or a status reply
LoopResults(a) ==
    {Timeout} \cup {[success |-> TRUE, response |-> f] :
                       f \in {BuildFrame(a, OpS0, <<>>),
                              CorruptChecksum(BuildFrame(a, OpS0, <<>>))}}

\* one iteration of the while loop in which poll_slave returns
LoopTick ==
    /\ app.is_running
    /\ app.task = "spawned"
    /\ module_addresses # <<>>
    /\ LET a == module_addresses[current_module_index + 1]
       IN  \E result \in LoopResults(a), reopen_ok \in ReopenOutcomes :
              Routed(a, Saturated(poll_module(StartOfTick(a), result, "denied", reopen_ok)),
                     reopen_ok, MaxBusErrors)
    /\ UNCHANGED <<link_vars, env_vars>>

\* one iteration in which the codec or the serial layer raises e: _poll_module
\* handles it, or it reaches except Exception of _polling_loop, which sets
\* is_running = False and returns
LoopTickRaises ==
    /\ app.is_running
    /\ app.task = "spawned"
    /\ module_addresses # <<>>
    /\ \/ /\ \E e \in PollExceptions : except_Exception(e)
          /\ LET a == module_addresses[current_module_index + 1]
             IN  \E reopen_ok \in ReopenOutcomes :
                    Routed(a, Saturated(poll_module_raises(StartOfTick(a), reopen_ok)),
                           reopen_ok, MaxBusErrors)
          /\ UNCHANGED <<link_vars, env_vars>>
       \/ /\ \E e \in PollExceptions : ~except_Exception(e)
          /\ app' = [app EXCEPT !.is_running = FALSE, !.task = "done"]
          /\ UNCHANGED <<engine_vars, is_initialized, link_vars, codec, domain_vars>>

NextLoop == LoopTick \/ LoopTickRaises

SpecLoop == Init /\ [][NextLoop]_vars

\* the event loop resumes the polling task whenever its sleep is over
SpecLoopFair == SpecLoop /\ WF_vars(NextLoop)

(***************************************************************************)
(* Registry reads of observers                                             *)
(***************************************************************************)
\* return self.modules.copy(): a new dict whose values are the same ModuleStatus
\* objects as those of the registry
get_all_modules_status(registry) == [a \in DOMAIN registry |-> a]

\* what the observer reads through the dict it holds
View(refs) == [a \in DOMAIN refs |-> modules[refs[a]]]

GetAllModulesStatus ==
    /\ ~snapshot.taken
    /\ \E refs \in {get_all_modules_status(modules)} :
          snapshot' = [taken |-> TRUE, refs |-> refs, contents |-> View(refs),
                       registry_altered |-> FALSE]
    /\ UNCHANGED <<sched_vars, link_vars, codec, app, ids, tickets, entries, bus, enqueue>>

\* the observer marks a module of its dict as offline and empties its queue
ObserverEdits ==
    /\ snapshot.taken
    /\ \E a \in DOMAIN snapshot.refs :
          \E edited \in {[modules[snapshot.refs[a]] EXCEPT !.state = OFFLINE,
                                                          !.pending_commands = <<>>]} :
            /\ modules' = [modules EXCEPT ![snapshot.refs[a]] = edited]
            /\ snapshot' = [snapshot EXCEPT !.contents[a] = edited,
                                            !.registry_altered = @ \/ modules' # modules]
    /\ UNCHANGED <<db_modules, module_addresses, current_module_index,
                   consecutive_errors, port_reopen_count, is_initialized, sends,
                   last, polled, hist, link_vars, codec, app, ids, tickets, entries, bus,
                   enqueue>>

\* the observer drops the dict
ObserverReleases ==
    /\ snapshot.taken
    /\ snapshot' = NoSnapshot
    /\ UNCHANGED <<sched_vars, link_vars, codec, app, ids, tickets, entries, bus, enqueue>>

\* the polling engine while an observer holds a dict
ObservedTick ==
    /\ module_addresses # <<>>
    /\ \E input \in BusInputs[module_addresses[current_module_index + 1]] :
            Tick(input.result, input.access, TRUE, MaxErrors)
    /\ UNCHANGED link_vars

ObservedSend ==
    \E address \in DOMAIN modules : SendCommand(address, continue_sequence(address))

NextObserver ==
    \/ GetAllModulesStatus
    \/ ObserverEdits
    \/ ObserverReleases
    \/ ObservedTick
    \/ ObservedSend

SpecObserver == InitLink /\ [][NextObserver]_vars

(***************************************************************************)
(* The pending queue of one module under two threads                       *)
(***************************************************************************)
\* add_pending_command calls one thread makes in one run
MaxEnqueues == 2

\* the module whose queue both threads use
QueueAddress == module_addresses[1]

\* what each thread enqueues: the scheduler O1 and K1 (_process_novelty,
\* _process_identification), the operator the frames of send_command
Enqueued(t) ==
    IF t = "scheduler"
    THEN {ok_download_novelty(QueueAddress), continue_sequence(QueueAddress)}
    ELSE OperatorFrames(QueueAddress)

QueueFrame == UNCHANGED <<db_modules, module_addresses, current_module_index,
                          consecutive_errors, port_reopen_count, is_initialized, sends,
                          last, polled, hist, link_vars, codec, app, ids, tickets,
                          entries, bus, snapshot>>

\* if command not in self.pending_commands: (the test; the append is a later step
\* of the thread)
EnqueueTests(t) ==
    /\ enqueue[t].pc = "idle"
    /\ enqueue[t].calls < MaxEnqueues
    /\ \E command \in Enqueued(t) :
          enqueue' = [enqueue EXCEPT
                         ![t] = [pc |-> IF command \in Range(modules[QueueAddress].pending_commands)
                                        THEN "idle" ELSE "append",
                                 command |-> command,
                                 calls |-> @.calls + 1]]
    /\ UNCHANGED modules
    /\ QueueFrame

\* self.pending_commands.append(command)
EnqueueAppends(t) ==
    /\ enqueue[t].pc = "append"
    /\ modules' = [modules EXCEPT ![QueueAddress].pending_commands =
                                      Append(@, enqueue[t].command)]
    /\ enqueue' = [enqueue EXCEPT ![t].pc = "idle"]
    /\ QueueFrame

\* get_next_command of the polling loop: self.pending_commands.pop(0)
SchedulerPops ==
    /\ enqueue["scheduler"].pc = "idle"
    /\ modules[QueueAddress].pending_commands # <<>>
    /\ modules' = [modules EXCEPT ![QueueAddress].pending_commands =
                                      get_next_command(@).pending]
    /\ UNCHANGED enqueue
    /\ QueueFrame

\* clear_pending_commands of the polling loop at an escalation
SchedulerClears ==
    /\ enqueue["scheduler"].pc = "idle"
    /\ modules[QueueAddress].pending_commands # <<>>
    /\ modules' = [modules EXCEPT ![QueueAddress].pending_commands =
                                      clear_pending_commands(@)]
    /\ UNCHANGED enqueue
    /\ QueueFrame

NextQueue ==
    \/ \E t \in Threads : EnqueueTests(t)
    \/ \E t \in Threads : EnqueueAppends(t)
    \/ SchedulerPops
    \/ SchedulerClears

SpecQueue == InitLink /\ [][NextQueue]_vars

(***************************************************************************)
(* IDGenerator: movement ids and their decoding.  An instant is             *)
(* datetime.now() as days after BASE_DATE and the fields of its time of day.*)
(***************************************************************************)
\* days_diff * 100000000: the factor that separates the day from the time of day
DayFactor == 100000000

\* current_date.hour * 3600000 + minute * 60000 + second * 1000 + microsecond // 1000
milliseconds_today(now) ==
    now.hour * 3600000 + now.minute * 60000 + now.second * 1000
        + (now.microsecond \div 1000)

generate_movement_id(now) == now.day * DayFactor + milliseconds_today(now)

\* the names the module imports from datetime: datetime and date, not timedelta
\* (time is the module time, not datetime.time)
DatetimeImports == {"datetime", "date"}

ParseError(error) ==
    [valid |-> FALSE, error |-> error, days |-> 0, hours |-> 0, minutes |-> 0,
     seconds |-> 0, milliseconds |-> 0]

\* parse_movement_id: the body runs in a try whose except returns the error
\* dictionary; the name timedelta is looked up before anything is returned
parse_movement_id(movement_id) ==
    LET days_from_base == movement_id \div DayFactor
        ms_today == movement_id % DayFactor
        total_seconds == ms_today \div 1000
    IN  IF "timedelta" \notin DatetimeImports
        THEN ParseError("NameError")
        ELSE [valid |-> TRUE, error |-> "", days |-> days_from_base,
              hours |-> total_seconds \div 3600,
              minutes |-> (total_seconds % 3600) \div 60,
              seconds |-> total_seconds % 60,
              milliseconds |-> ms_today % 1000]

\* wall-clock instants: the day before BASE_DATE, BASE_DATE, later days, at the
\* ends of the day and around a change of millisecond
Instants ==
    [day : {-1, 0, 1, 20}, hour : {0, 23}, minute : {0, 59}, second : {0, 59},
     microsecond : {0, 999, 1000, 999999}]

\* IDGenerator.generate_movement_id() at the instant now
GenerateId ==
    /\ \E now \in Instants :
          ids' = [NoIds EXCEPT !.fn = "generate", !.now = now,
                               !.id = generate_movement_id(now)]
    /\ UNCHANGED <<sched_vars, link_vars, codec, app, tickets, entries, bus, client_vars>>

\* IDGenerator.parse_movement_id(id) of the id generated last
ParseId ==
    /\ ids.fn = "generate"
    /\ ids' = [ids EXCEPT !.fn = "parse", !.parsed = parse_movement_id(ids.id)]
    /\ UNCHANGED <<sched_vars, link_vars, codec, app, tickets, entries, bus, client_vars>>

NextIds == GenerateId \/ ParseId

SpecIds == InitLink /\ [][NextIds]_vars

(***************************************************************************)
(* TicketManager over the tables tck (active) and tckhst (history).  Each  *)
(* call works in a session of its own: what it reads is what is committed, *)
(* and what it writes becomes visible at its commit, all of it or nothing. *)
(***************************************************************************)
MaxIssues == 2

MaxClock == 3

\* generate_movement_id() + 50000000
TicketIdOffset == 50000000

generate_ticket_id(now) == generate_movement_id(now) + TicketIdOffset

\* the instant of minute t of the model's clock
At(t) ==
    [day |-> 0, hour |-> t \div 60, minute |-> t % 60, second |-> 0, microsecond |-> 0]

Numbers(rows) == {r.Numero : r \in rows}

Maximum(S) == IF S = {} THEN 0 ELSE CHOOSE x \in S : \A y \in S : y <= x

\* max(last_active or 0, last_history or 0) + 1
generate_ticket_number(active, history) ==
    Maximum({Maximum(Numbers(active)), Maximum(Numbers(history))}) + 1

\* int(datetime.now().timestamp()) % 1000000, when the query of the maximum fails
FallbackNumbers == 1..2

TicketNumbers == 1..(MaxIssues + 1)

\* the rest of the model does not take part in the ticket calls
TicketFrame == UNCHANGED <<sched_vars, link_vars, codec, app, ids, entries, bus, client_vars>>

\* time passes
AdvanceClock ==
    /\ tickets.clock < MaxClock
    /\ tickets' = [tickets EXCEPT !.clock = @ + 1]
    /\ TicketFrame

\* create_ticket up to session.add(ticket): the ids are generated, the number in
\* a session of _generate_ticket_number's own
CreateTicketBegins(c) ==
    /\ tickets.session[c].pc = "idle"
    /\ tickets.issues < MaxIssues
    /\ tickets.clock < MaxClock
    /\ \E number \in {generate_ticket_number(tickets.active, tickets.history)}
                         \cup FallbackNumbers :
          tickets' = [tickets EXCEPT
                         !.issues = @ + 1,
                         !.clock = @ + 1,
                         !.session[c] =
                             [pc |-> "create",
                              number |-> number,
                              ticket |-> [TicketID |-> generate_ticket_id(At(tickets.clock)),
                                          Numero |-> number,
                                          FechaHoraIngreso |-> tickets.clock]]]
    /\ TicketFrame

\* create_ticket leaves its with block: commit, or rollback and (False, None)
CreateTicketCommits(c) ==
    /\ tickets.session[c].pc = "create"
    /\ \E db_ok \in BOOLEAN :
          LET ticket == tickets.session[c].ticket
              done == db_ok /\ ticket.TicketID \notin {r.TicketID : r \in tickets.active}
          IN  tickets' =
                  IF done
                  THEN [tickets EXCEPT
                           !.active = @ \cup {ticket},
                           !.issued = Append(@, ticket.Numero),
                           !.max_at_issue =
                               Maximum(Numbers(tickets.active) \cup Numbers(tickets.history)),
                           !.session[c] = NoSession,
                           !.seen = [NoTicketResult EXCEPT !.op = "create",
                                                           !.number = ticket.Numero,
                                                           !.success = TRUE]]
                  ELSE [tickets EXCEPT
                           !.session[c] = NoSession,
                           !.seen = [NoTicketResult EXCEPT !.op = "create"]]
    /\ TicketFrame

\* process_ticket_exit up to session.delete(active_ticket): the first active
\* ticket with the number, in no particular order, or (False, error)
TicketExitBegins(c) ==
    /\ tickets.session[c].pc = "idle"
    /\ \E number \in TicketNumbers :
          LET found == {r \in tickets.active : r.Numero = number}
          IN  IF found = {}
              THEN tickets' = [tickets EXCEPT
                                  !.seen = [NoTicketResult EXCEPT !.op = "exit",
                                                                  !.number = number]]
              ELSE \E active_ticket \in found :
                      tickets' = [tickets EXCEPT
                                     !.session[c] = [pc |-> "exit", number |-> number,
                                                     ticket |-> active_ticket]]
    /\ TicketFrame

\* the history row of a ticket that leaves at instant t
HistoryRow(ticket, t) ==
    [TicketID |-> ticket.TicketID, Numero |-> ticket.Numero,
     FechaHoraIngreso |-> ticket.FechaHoraIngreso, FechaHoraSalida |-> t]

\* a commit that writes the history row although the rest of the transaction fails
commit_exit_history_first(t, ticket, now, done) ==
    [t EXCEPT !.active = IF done THEN @ \ {ticket} ELSE @,
              !.history = @ \cup {HistoryRow(ticket, now)}]

\* session.commit() of process_ticket_exit: the insert into tckhst and the delete
\* from tck take effect together, or the rollback leaves both tables as they were
commit_exit(t, ticket, now, done) ==
    IF done
    THEN [t EXCEPT !.active = @ \ {ticket},
                   !.history = @ \cup {HistoryRow(ticket, now)}]
    ELSE t

\* process_ticket_exit leaves its with block.  The commit fails when the database
\* fails, when the row was deleted by another session in the meantime, or when
\* tckhst already holds the TicketID
TicketExitCommits(c) ==
    /\ tickets.session[c].pc = "exit"
    /\ \E db_ok \in BOOLEAN :
          LET ticket == tickets.session[c].ticket
              done == /\ db_ok
                      /\ ticket \in tickets.active
                      /\ ticket.TicketID \notin {r.TicketID : r \in tickets.history}
              written == commit_exit(tickets, ticket, tickets.clock, done)
          IN  tickets' =
                  [written EXCEPT
                      !.closed = IF done THEN @ \cup {ticket.Numero} ELSE @,
                      !.session[c] = NoSession,
                      !.seen = [NoTicketResult EXCEPT
                                   !.op = "exit",
                                   !.number = ticket.Numero,
                                   !.success = done,
                                   !.duration_minutes =
                                       IF done THEN tickets.clock - ticket.FechaHoraIngreso
                                       ELSE 0]]
    /\ TicketFrame

\* validate_ticket(ticket_number): a query and nothing else
ValidateTicket(c) ==
    /\ tickets.session[c].pc = "idle"
    /\ \E number \in TicketNumbers :
          LET found == {r \in tickets.active : r.Numero = number}
          IN  IF found = {}
              THEN tickets' = [tickets EXCEPT
                                  !.seen = [NoTicketResult EXCEPT !.op = "validate",
                                                                  !.number = number]]
              ELSE \E ticket \in found :
                      tickets' = [tickets EXCEPT
                                     !.seen = [op |-> "validate", number |-> number,
                                               success |-> TRUE,
                                               duration_minutes |->
                                                   tickets.clock - ticket.FechaHoraIngreso]]
    /\ TicketFrame

NextTickets ==
    \/ AdvanceClock
    \/ \E c \in Clients :
          \/ CreateTicketBegins(c)
          \/ CreateTicketCommits(c)
          \/ TicketExitBegins(c)
          \/ TicketExitCommits(c)
          \/ ValidateTicket(c)

SpecTickets == InitLink /\ [][NextTickets]_vars

(***************************************************************************)
(* MovementManager: the access decision for a presented identification and *)
(* the movement it creates.  The clock counts minutes.                     *)
(***************************************************************************)
MaxPresentations == 3

\* the modules: A is an entry whose exit is B
ModuleA == 1

ModuleB == 2

ModuleRows ==
    {[ModuloID |-> ModuleA, ModuloEntradaID |-> NoModule, ModuloSalidaID |-> ModuleB],
     [ModuloID |-> ModuleB, ModuloEntradaID |-> ModuleA, ModuloSalidaID |-> NoModule]}

\* the table of identifications; 4444 belongs to nobody, 9999 is not in the table
IdentificationRows ==
    {[Numero |-> "1111", IdentificacionID |-> 1],
     [Numero |-> "2222", IdentificacionID |-> 2],
     [Numero |-> "3333", IdentificacionID |-> 3],
     [Numero |-> "4444", IdentificacionID |-> 4]}

PresentedNumbers == {"1111", "2222", "3333", "4444", "9999"}

PersonIdentificationRows ==
    {[IdentificacionID |-> 1, PersonaID |-> 1],
     [IdentificacionID |-> 2, PersonaID |-> 2],
     [IdentificacionID |-> 3, PersonaID |-> 3]}

\* person 1 has no validity window, person 2's has ended, person 3's has not begun
PersonRows ==
    {[PersonaID |-> 1, FechaInicio |-> NoDate, FechaFin |-> NoDate],
     [PersonaID |-> 2, FechaInicio |-> NoDate, FechaFin |-> 0],
     [PersonaID |-> 3, FechaInicio |-> 10000, FechaFin |-> NoDate]}

\* get_last_movement(person_id, limit_hours): the latest movement of the person's
\* identifications not older than limit_hours, or NoMovement
get_last_movement(movements, person_id, now, limit_hours) ==
    LET identification_ids ==
            {pi.IdentificacionID : pi \in {r \in PersonIdentificationRows :
                                              r.PersonaID = person_id}}
        recent == {m \in movements : /\ m.IdentificacionID \in identification_ids
                                     /\ m.FechaHora >= now - limit_hours * 60}
    IN  IF recent = {} THEN NoMovement
        ELSE CHOOSE m \in recent : \A o \in recent : o.FechaHora <= m.FechaHora

\* limit_hours of the lookup of _validate_antipassback
antipassback_limit_hours == 48

\* _validate_antipassback: the last movement is looked up and not used
validate_antipassback(movements, person_id, module_id, now) == TRUE

\* limit_hours and min_minutes of _validate_minimum_stay
minimum_stay_limit_hours == 1

min_minutes == 5

validate_minimum_stay(movements, person_id, module_id, now) ==
    LET last_movement == get_last_movement(movements, person_id, now,
                                           minimum_stay_limit_hours)
    IN  IF last_movement = NoMovement THEN TRUE
        ELSE (now - last_movement.FechaHora) * 60 >= min_minutes * 60

\* validate_identification; db_ok: the session works, else the except branch
validate_identification(movements, identification_number, module_id, now, db_ok) ==
    LET identifications == {r \in IdentificationRows : r.Numero = identification_number}
        identification == CHOOSE r \in identifications : TRUE
        relations == {r \in PersonIdentificationRows :
                         r.IdentificacionID = identification.IdentificacionID}
        person_relation == CHOOSE r \in relations : TRUE
        persons == {r \in PersonRows : r.PersonaID = person_relation.PersonaID}
        person == CHOOSE r \in persons : TRUE
    IN  IF ~db_ok THEN AccessResult(FALSE, "Error interno", NoPerson)
        ELSE IF identifications = {}
        THEN AccessResult(FALSE, "Identificación no encontrada", NoPerson)
        ELSE IF relations = {}
        THEN AccessResult(FALSE, "Identificación sin persona asociada", NoPerson)
        ELSE IF persons = {}
        THEN AccessResult(FALSE, "Persona no encontrada", NoPerson)
        ELSE IF person.FechaInicio # NoDate /\ now < person.FechaInicio
        THEN AccessResult(FALSE, "Acceso no vigente aún", person.PersonaID)
        ELSE IF person.FechaFin # NoDate /\ now > person.FechaFin
        THEN AccessResult(FALSE, "Acceso vencido", person.PersonaID)
        ELSE IF ~validate_antipassback(movements, person.PersonaID, module_id, now)
        THEN AccessResult(FALSE, "Violación de antipassback", person.PersonaID)
        ELSE IF ~validate_minimum_stay(movements, person.PersonaID, module_id, now)
        THEN AccessResult(FALSE, "Permanencia mínima no cumplida", person.PersonaID)
        ELSE AccessResult(TRUE, "Acceso autorizado", person.PersonaID)

\* create_movement(identification_number, module_id): the rows it commits, none
\* when the identification or the module is missing or the session fails; the
\* direction is the default of the parameter, no caller passes one
create_movement(movements, identification_number, module_id, now, db_ok) ==
    LET identifications == {r \in IdentificationRows : r.Numero = identification_number}
        identification == CHOOSE r \in identifications : TRUE
        movement == [MovimientoID |-> generate_movement_id(At(now)),
                     ModuloID |-> module_id,
                     IdentificacionID |-> identification.IdentificacionID,
                     FechaHora |-> now,
                     direction |-> "Entrada"]
    IN  IF \/ ~db_ok
           \/ identifications = {}
           \/ module_id \notin {r.ModuloID : r \in ModuleRows}
           \/ movement.MovimientoID \in {m.MovimientoID : m \in movements}
        THEN {}
        ELSE {movement}

\* the minutes that pass before an identification is presented
Pauses == {1, 4, 60}

MaxTime == 130

\* the person behind an identification number, or NoPerson
PersonOf(identification_number) ==
    LET ids_of == {r.IdentificacionID : r \in {x \in IdentificationRows :
                                                   x.Numero = identification_number}}
        persons == {r.PersonaID : r \in {x \in PersonIdentificationRows :
                                             x.IdentificacionID \in ids_of}}
    IN  IF persons = {} THEN NoPerson ELSE CHOOSE q \in persons : TRUE

\* _process_identification(identification, module_status): the decision, and the
\* movement when the decision allows it
Present ==
    /\ entries.presentations < MaxPresentations
    /\ \E pause \in Pauses, numero \in PresentedNumbers,
          module_id \in {ModuleA, ModuleB}, validate_ok \in BOOLEAN, create_ok \in BOOLEAN :
          LET now == entries.now + pause
              decision == validate_identification(entries.movements, numero, module_id,
                                                  now, validate_ok)
              created == IF decision.allowed
                         THEN create_movement(entries.movements, numero, module_id,
                                              now, create_ok)
                         ELSE {}
              person_id == PersonOf(numero)
          IN  /\ now <= MaxTime
              /\ entries' =
                    [movements |-> entries.movements \cup created,
                     now |-> now,
                     presentations |-> entries.presentations + 1,
                     seen |-> [numero |-> numero, module_id |-> module_id,
                               decision |-> decision,
                               last_before |->
                                   IF person_id = NoPerson THEN NoMovement
                                   ELSE get_last_movement(entries.movements, person_id, now,
                                                          antipassback_limit_hours),
                               created |-> created]]
    /\ UNCHANGED <<sched_vars, link_vars, codec, app, ids, tickets, bus, client_vars>>

NextAccess == Present

SpecAccess == InitLink /\ [][NextAccess]_vars

(***************************************************************************)
(* Properties                                                              *)
(***************************************************************************)
\* a step of the scheduler under Spec and SpecBus (the other steps are send_command calls)
TickStep == sends' = sends

\* the address the scheduler polls in the step that leaves this state
PolledAddress == module_addresses[current_module_index + 1]

Queue(a) == modules[a].pending_commands

QueueAfter(a) == modules'[a].pending_commands

IsPrefix(p, q) == Len(p) <= Len(q) /\ SubSeq(q, 1, Len(p)) = p

LoadedIds == {modules[a].module_id : a \in DOMAIN modules}

RowOf(id) == CHOOSE r \in db_modules : r.ModuloID = id

Precedes(i, j) ==
    \/ RowOf(i).OrdenEncuesta < RowOf(j).OrdenEncuesta
    \/ (RowOf(i).OrdenEncuesta = RowOf(j).OrdenEncuesta /\ i < j)

FirstModule == CHOOSE i \in LoadedIds : \A j \in LoadedIds \ {i} : Precedes(i, j)

\* the module after i in ascending (polling_order, module_id), wrapping at the end
SuccModule(i) ==
    IF \E j \in LoadedIds : Precedes(i, j)
    THEN CHOOSE j \in LoadedIds :
            /\ Precedes(i, j)
            /\ \A k \in LoadedIds : Precedes(i, k) /\ k # j => Precedes(j, k)
    ELSE FirstModule

C2_Fifo ==
    [][\A a \in DOMAIN modules :
          IF TickStep /\ a = PolledAddress
          THEN /\ last'.command = IF Queue(a) # <<>> THEN Head(Queue(a)) ELSE read_status(a)
               /\ (last'.command = read_status(a)) <=> (Queue(a) = <<>>)
               /\ \/ QueueAfter(a) = <<>>
                  \/ IsPrefix(IF Queue(a) # <<>> THEN Tail(Queue(a)) ELSE <<>>, QueueAfter(a))
          ELSE IsPrefix(Queue(a), QueueAfter(a))]_vars

\* a turn sent the K1 that headed the queue and left the O1 queued behind it at the head
C2_Witness ==
    \E a \in DOMAIN modules :
        /\ last.address = a
        /\ last.command = continue_sequence(a)
        /\ Queue(a) # <<>>
        /\ Head(Queue(a)) = ok_download_novelty(a)

\* C3 as claimed: after a tick in which novelty handling ran for a module, the
\* frame transmitted on that module's next turn is its O1 acknowledgement.
C3_AckNextTurn ==
    [][TickStep /\ hist[PolledAddress].novelty
          => last'.command = ok_download_novelty(PolledAddress)]_vars

\* C3 amended: once a tick's novelty handling extracted an identification for a
\* module, the O1 acknowledgement is in that module's queue from the end of the
\* tick until the module's next turn, and that turn transmits the head of the
\* queue: O1 only if nothing is queued ahead of it.
C3_AckQueued ==
    /\ [](\A a \in DOMAIN modules :
            hist[a].ident => ok_download_novelty(a) \in Range(Queue(a)))
    /\ [][TickStep /\ hist[PolledAddress].ident
            => /\ last'.command = Head(Queue(PolledAddress))
               /\ (last'.command = ok_download_novelty(PolledAddress))
                    <=> (Head(Queue(PolledAddress)) = ok_download_novelty(PolledAddress))]_vars

\* an allowed access left K1 ahead of the O1 it queued in the same tick
C3_Witness ==
    \E a \in DOMAIN modules :
        /\ last.address = a
        /\ hist[a].novelty /\ hist[a].ident /\ hist[a].k1 /\ last.o1
        /\ Queue(a) = <<continue_sequence(a), ok_download_novelty(a)>>

\* C4 as claimed: a K1 enqueued by event processing in a module's tick is the
\* frame transmitted on that module's next turn.
C4_ActuationNextTurn ==
    [][TickStep /\ hist[PolledAddress].k1
          => last'.command = continue_sequence(PolledAddress)]_vars

\* C4 amended: a K1 enqueued by event processing in a module's tick is not
\* transmitted in that tick: it stays in the module's queue until the module's
\* next turn; it heads the queue, and is then the frame transmitted on that next
\* turn, whenever no other frame was left waiting after the tick's own pop.
C4_ActuationQueued ==
    /\ [](\A a \in DOMAIN modules :
            hist[a].k1 => continue_sequence(a) \in Range(Queue(a)))
    /\ [][TickStep /\ last'.k1 /\ Len(Queue(PolledAddress)) <= 1
            => Head(QueueAfter(PolledAddress)) = continue_sequence(PolledAddress)]_vars
    /\ [][TickStep /\ hist[PolledAddress].k1
             /\ Head(Queue(PolledAddress)) = continue_sequence(PolledAddress)
            => last'.command = continue_sequence(PolledAddress)]_vars

\* the turn after an allowed access transmitted the K1 that access had queued
C4_Witness ==
    \E a \in DOMAIN modules :
        /\ last.address = a
        /\ last.command = continue_sequence(a)
        /\ Queue(a) = <<ok_download_novelty(a)>>
        /\ sends = 0

\* C5: a failed poll that brings a module's retry_count to max_retries puts the
\* module in state error, resets retry_count to 0, empties its queue and publishes
\* module_state_changed once; a failed poll that leaves retry_count below
\* max_retries only counts, changes no state and publishes nothing. Hence over
\* max_retries consecutive failures from retry_count 0 the module enters error on
\* the last one and module_state_changed is published exactly once.
C5_Escalation ==
    /\ [](\A a \in DOMAIN modules :
            /\ modules[a].retry_count < max_retries
            /\ modules[a].retry_count = modules[a].consecutive_errors % max_retries
            /\ modules[a].retry_count > 0 => hist[a].window_pubs = 0
            /\ (modules[a].retry_count = 0 /\ modules[a].consecutive_errors > 0)
                  => (modules[a].state = ERROR /\ hist[a].window_pubs = 1))
    /\ [][TickStep /\ ~last'.valid
            => LET a == PolledAddress
                   r == modules[a].retry_count
               IN  IF r + 1 = max_retries
                   THEN /\ modules'[a].state = ERROR
                        /\ modules'[a].retry_count = 0
                        /\ QueueAfter(a) = <<>>
                        /\ last'.pubs = 1
                   ELSE /\ modules'[a].state = modules[a].state
                        /\ modules'[a].retry_count = r + 1
                        /\ last'.pubs = 0]_vars

\* the third failure in a row escalated a module that still had frames queued
C5_Witness ==
    \E a \in DOMAIN modules :
        /\ last.address = a /\ ~last.valid
        /\ modules[a].consecutive_errors = max_retries
        /\ modules[a].state = ERROR /\ modules[a].retry_count = 0
        /\ last.was # ERROR /\ last.dropped > 0
        /\ Queue(a) = <<>> /\ last.pubs = 1 /\ hist[a].window_pubs = 1

\* C6: after a tick whose reply validated as an S0 or S6 response the module's
\* consecutive_errors and retry_count and the bus consecutive_errors are 0 and
\* the module is online, whatever its state was before.
C6_ValidResets ==
    (last.valid /\ last.op \in {OpS0, OpS6})
        => /\ modules[last.address].consecutive_errors = 0
           /\ modules[last.address].retry_count = 0
           /\ modules[last.address].state = ONLINE
           /\ consecutive_errors = 0

\* a module that had escalated to error answered a validated S0
C6_Witness ==
    /\ last.valid /\ last.op = OpS0 /\ last.was = ERROR
    /\ modules[last.address].state = ONLINE

\* C7 as claimed: a failed poll that brings the bus consecutive_errors to the reopen
\* threshold invokes reopen once, and the tick ends with the bus counter at 0 and
\* port_reopen_count one higher.
C7_ReopenResets ==
    [][TickStep /\ ~last'.valid /\ consecutive_errors + 1 >= max_consecutive_errors
          => /\ last'.reopen_calls = 1
             /\ consecutive_errors' = 0
             /\ port_reopen_count' = port_reopen_count + 1]_vars

\* C7 amended: a failed poll that brings the bus consecutive_errors to the reopen
\* threshold invokes reopen exactly once; when the reopen succeeds the tick ends
\* with the bus counter at 0 and port_reopen_count one higher, when it fails the
\* counter keeps its incremented value, port_reopen_count is unchanged and the port
\* is left closed.  A failed poll below the threshold invokes no reopen.
C7_ReopenOnSuccess ==
    [][TickStep /\ ~last'.valid
          => IF consecutive_errors + 1 >= max_consecutive_errors
             THEN /\ last'.reopen_calls = 1
                  /\ IF is_initialized'
                     THEN /\ consecutive_errors' = 0
                          /\ port_reopen_count' = port_reopen_count + 1
                     ELSE /\ consecutive_errors' = consecutive_errors + 1
                          /\ port_reopen_count' = port_reopen_count
             ELSE /\ last'.reopen_calls = 0
                  /\ consecutive_errors' = consecutive_errors + 1
                  /\ port_reopen_count' = port_reopen_count
                  /\ is_initialized' = is_initialized]_vars

\* the tenth failed poll in a row reopened the port
C7_Witness ==
    /\ ~last.valid /\ last.reopen_calls = 1
    /\ is_initialized /\ consecutive_errors = 0 /\ port_reopen_count = 1
    /\ \E a \in DOMAIN modules : modules[a].consecutive_errors >= 5

\* C8: no module's pending queue holds the same frame twice.
C8_NoDuplicates ==
    \A a \in DOMAIN modules :
        \A i, j \in 1..Len(Queue(a)) : Queue(a)[i] = Queue(a)[j] => i = j

\* the operator queued the same K1 twice for the only module before its first turn
C8_Witness ==
    /\ Cardinality(DOMAIN modules) = 1
    /\ sends = 2 /\ last.address = 0
    /\ \A a \in DOMAIN modules : Queue(a) = <<continue_sequence(a)>>

\* the flush-transmit-receive cycle of poll_slave
InCycle(t) == pc[t] \in {"reset", "write", "read"}

\* C9: no two poll_slave calls overlap on the bus: a task is inside its
\* flush-transmit-receive cycle only while it holds the port lock, and while one
\* task is inside its cycle no other task has begun its flush or its transmit.
C9_NoOverlap ==
    /\ \A t \in Tasks : InCycle(t) => lock = t
    /\ \A t, u \in Tasks : (t # u /\ InCycle(t)) => ~InCycle(u)

\* the operator waits for the lock while the scheduler reads the answer to its poll
C9_Witness ==
    /\ pc["scheduler"] = "read" /\ call["scheduler"].response # <<>>
    /\ pc["operator"] = "acquire"
    /\ lock = "scheduler"

\* C10 as claimed: when the polled module's complete well-formed frame is in the
\* port before the deadline, poll_slave returns success with every byte through
\* ETX and the two checksum bytes, validate_response accepts the returned bytes
\* for the polled address, and the tick is routed as a success.
C10_ReturnsChecksum ==
    /\ \A t \in Tasks :
          (pc[t] \in {"restore", "return", "idle"} /\ call[t].in_time)
              => /\ call[t].success
                 /\ call[t].response = ReplyTo(call[t].address, call[t].command)
                 /\ validate_response(call[t].response, call[t].address).valid
    /\ (pc["scheduler"] = "idle" /\ call["scheduler"].in_time) => last.valid

\* the two uppercase hexadecimal digits of the sum of the bytes of body, modulo 256
HexOfSum(body) ==
    <<HexDigit((SumBytes(body) % 256) \div 16), HexDigit((SumBytes(body) % 256) % 16)>>

\* C11: for every address a in 1..99 the frame of read_status(a) validates against
\* a as address a, opcode S0 and empty payload, and against every other expected
\* address it is invalid for the reason of an address mismatch.
C11_ReadStatusRoundTrip ==
    (codec.fn = "validate" /\ codec.encoder = "read_status" /\ codec.address \in 1..99)
        => IF codec.expected = codec.address
           THEN /\ codec.validation.valid
                /\ codec.validation.address = codec.address
                /\ codec.validation.command = OpS0
                /\ codec.validation.data = <<>>
           ELSE /\ ~codec.validation.valid
                /\ codec.validation.error = "Direccion incorrecta"

\* the frame of read_status(99) validated against 99 and accepted
C11_Witness ==
    /\ codec.fn = "validate" /\ codec.encoder = "read_status"
    /\ codec.address = 99 /\ codec.expected = 99
    /\ codec.validation.valid /\ codec.validation.command = OpS0

\* x is the hexadecimal digit y written in either letter case
SameHexDigit(x, y) == x = y \/ (x >= 97 /\ x <= 102 /\ x - 32 = y)

\* C12 as claimed: when validate_response accepts a byte sequence, its last two
\* bytes are exactly the two uppercase hexadecimal digits of the sum, modulo 256,
\* of the bytes from STX through ETX.
C12_ChecksumExact ==
    (codec.fn = "validate" /\ codec.validation.valid)
        => LET f == codec.frame
           IN  SubSeq(f, Len(f) - 1, Len(f)) = HexOfSum(SubSeq(f, 1, FindETX(f)))

\* C12 amended: when validate_response accepts a byte sequence, the sequence
\* starts with STX and the two bytes after its first ETX are, in either letter
\* case, the two hexadecimal digits of the sum, modulo 256, of the bytes from STX
\* through that ETX; whatever follows those two bytes is ignored.
C12_ChecksumAnyCase ==
    (codec.fn = "validate" /\ codec.validation.valid)
        => LET f == codec.frame
               etx == CHOOSE i \in 1..Len(f) :
                         f[i] = ASCII_ETX /\ \A j \in 1..(i - 1) : f[j] # ASCII_ETX
               sum == HexOfSum(SubSeq(f, 1, etx))
           IN  /\ f[1] = ASCII_STX
               /\ \E i \in 1..Len(f) : f[i] = ASCII_ETX
               /\ Len(f) >= etx + 2
               /\ SameHexDigit(f[etx + 1], sum[1])
               /\ SameHexDigit(f[etx + 2], sum[2])

\* a frame whose checksum came with a lowercase letter was accepted
C12_Witness ==
    /\ codec.fn = "validate" /\ codec.validation.valid
    /\ LET etx == FindETX(codec.frame)
       IN  codec.frame[etx + 1] \in 97..102 \/ codec.frame[etx + 2] \in 97..102

\* C13 as claimed: for every address 1..255 that configuration validation accepts,
\* each encoder's frame carries the address as exactly two decimal digits, so the
\* opcode is at characters 4 and 5 of the frame, and the command type and read
\* deadline the scheduler derives from the frame are those of the opcode sent.
C13_TwoDigitAddress ==
    /\ codec.fn \in {"encode", "timeout"}
          => /\ codec.frame[1] = ASCII_STX
             /\ codec.frame[2] \in 48..57 /\ codec.frame[3] \in 48..57
             /\ (codec.frame[2] - 48) * 10 + (codec.frame[3] - 48) = codec.address
             /\ SubSeq(codec.frame, 4, 5) = OpcodeOf(codec.encoder)
    /\ codec.fn = "timeout"
          => /\ codec.command_type = OpcodeOf(codec.encoder)
             /\ codec.timeout_ms = IF codec.encoder = "read_status" THEN 2000 ELSE 1000

\* C14 as claimed: for every non-empty status payload parse_status_response
\* returns bit 0, bit 1 and bit 7 of the first payload byte as barrier state,
\* sensor state and novelty flag, whether or not a second byte is present.
C14_StatusBits ==
    (codec.fn = "parse_status" /\ codec.payload # <<>>)
        => LET b == codec.payload[1]
           IN  /\ codec.status.barrier_state = b % 2
               /\ codec.status.sensor_ddmm = (b \div 2) % 2
               /\ codec.status.has_novelty = (b \div 128) % 2

\* C15 as claimed: after a tick whose validated status reply signals a novelty
\* (opcode S6 with any payload, or opcode S0 with the novelty bit of the status
\* byte set) novelty handling has run and the O1 frame for the module's address is
\* in the module's queue.
C15_NoveltyAcked ==
    (last.valid /\ (last.op = OpS6 \/ (last.op = OpS0 /\ last.has_novelty = 1)))
        => /\ last.novelty
           /\ ok_download_novelty(last.address) \in Range(Queue(last.address))

KnownOpcodes == {OpS0, OpS6, OpK0, OpK1, OpO1}

\* C16 as claimed: a tick whose validated reply carries an opcode other than S0,
\* S6, K0, K1 and O1 counts as a failure: the module's and the bus's
\* consecutive_errors grow by one, retry_count advances, and the reply does not
\* set the module online.
C16_UnknownOpFails ==
    [][(TickStep /\ last'.valid /\ last'.op \notin KnownOpcodes)
          => LET a == PolledAddress
             IN  /\ modules'[a].consecutive_errors = modules[a].consecutive_errors + 1
                 /\ consecutive_errors' = consecutive_errors + 1
                 /\ modules'[a].retry_count = (modules[a].retry_count + 1) % max_retries
                 /\ modules'[a].state \in {modules[a].state, ERROR}]_vars

\* a step of send_command(address, command, immediate=True)
OperatorStep == pc'["operator"] # pc["operator"] \/ call'["operator"] # call["operator"]

PolledRows == {r \in db_modules : r.Address > 0}

\* C18 as claimed: a failed startup step makes startup return error with no
\* scheduler task, and the scheduler task exists only after every step before it
\* succeeded - in particular after the port was opened and the registry was loaded
\* from persistence successfully.
C18_SpawnAfterLoad ==
    /\ (\E s \in StartupSteps : app.outcome[s] = "failed")
          => app.result = "error" /\ app.task = "none"
    /\ app.task # "none" => \A s \in StartupSteps : app.outcome[s] = "ok"

\* C19 as claimed: the scheduler runs only on a configuration without validation
\* errors, so that in every running state each bus address belongs to exactly one
\* configured module and every configured polled module has its own runtime state.
C19_ValidWhenRunning ==
    app.task = "spawned"
        => /\ validate_all_modules(db_modules) = {}
           /\ \A r \in PolledRows :
                 /\ Cardinality({q \in PolledRows : q.Address = r.Address}) = 1
                 /\ r.Address \in DOMAIN modules
                 /\ modules[r.Address].module_id = r.ModuloID

\* C20 as claimed: the port is closed only once the scheduler task has completed,
\* and persistence is closed only after the port.
C20_CloseAfterTask ==
    /\ app.port_closed => app.task = "done"
    /\ (app.step = "stopped" /\ app.task # "none") => app.port_closed

\* C30 as claimed: decoding a generated movement id gives the day of the instant
\* of generation and its time of day to the millisecond, and the ids of two
\* instants of one day at different milliseconds are ordered like the instants.
C30_IdDecodes ==
    /\ ids.fn = "parse"
          => /\ ids.parsed.valid
             /\ ids.parsed.days = ids.now.day
             /\ ids.parsed.hours = ids.now.hour
             /\ ids.parsed.minutes = ids.now.minute
             /\ ids.parsed.seconds = ids.now.second
             /\ ids.parsed.milliseconds = ids.now.microsecond \div 1000
    /\ \A n1, n2 \in Instants :
          (n1.day = n2.day /\ milliseconds_today(n1) < milliseconds_today(n2))
              => generate_movement_id(n1) < generate_movement_id(n2)

TicketIds(rows) == {r.TicketID : r \in rows}

\* C27: after every step no ticket is both in the active and in the history table;
\* a step that takes a ticket out of the active table puts it into the history
\* table, and a step that puts a ticket into the history table takes it out of the
\* active table - also the step of a close that fails, which changes neither.
C27_AtomicClose ==
    [][/\ TicketIds(tickets'.active) \cap TicketIds(tickets'.history) = {}
       /\ \A r \in tickets.active \ tickets'.active :
             r.TicketID \in TicketIds(tickets'.history)
       /\ \A h \in tickets'.history \ tickets.history :
             /\ h.TicketID \in TicketIds(tickets.active)
             /\ h.TicketID \notin TicketIds(tickets'.active)]_vars

\* one ticket was closed, and the close of another one has failed and left it active
C27_Witness ==
    /\ tickets.history # {}
    /\ tickets.seen.op = "exit"
    /\ ~tickets.seen.success
    /\ tickets.seen.number \in Numbers(tickets.active)

\* C28 as claimed: a validation of number N changes neither table, succeeds
\* exactly when N is the number of an active ticket, and fails for every N that
\* has been closed.
C28_ValidateClosed ==
    [][(tickets'.seen # tickets.seen /\ tickets'.seen.op = "validate")
          => /\ tickets'.active = tickets.active
             /\ tickets'.history = tickets.history
             /\ tickets'.seen.success <=> tickets'.seen.number \in Numbers(tickets.active)
             /\ tickets'.seen.number \in tickets.closed => ~tickets'.seen.success]_vars

\* C29 as claimed: the number of the ticket issued last is one more than the
\* largest number in the tables when it was issued, the issued numbers strictly
\* increase, and no two tickets carry the same number.
C29_NumbersIncrease ==
    /\ tickets.issued # <<>>
          => tickets.issued[Len(tickets.issued)] = tickets.max_at_issue + 1
    /\ \A i, j \in 1..Len(tickets.issued) :
          i < j => tickets.issued[i] < tickets.issued[j]
    /\ \A r1, r2 \in tickets.active \cup tickets.history :
          r1.TicketID # r2.TicketID => r1.Numero # r2.Numero

\* C24 as claimed: when the last movement of the person inside the lookup window
\* was an entry at module A, whose exit is module B, presenting the person's
\* identification at A again is denied for anti-passback and creates no movement.
C24_AntiPassback ==
    (/\ entries.seen.module_id = ModuleA
     /\ entries.seen.last_before # NoMovement
     /\ entries.seen.last_before.ModuloID = ModuleA
     /\ entries.seen.last_before.direction = "Entrada")
        => /\ ~entries.seen.decision.allowed
           /\ entries.seen.decision.reason = "Violación de antipassback"
           /\ entries.seen.created = {}

\* C25 as claimed: a presentation creates a movement exactly when its access
\* decision was allowed - none when it was denied, exactly one when it was allowed.
C25_MovementIffAllowed ==
    [][entries'.presentations # entries.presentations
          => /\ Cardinality(entries'.movements \ entries.movements) =
                    IF entries'.seen.decision.allowed THEN 1 ELSE 0
             /\ entries.movements \subseteq entries'.movements]_vars

(***************************************************************************)
(* Subscription bus and stop requests                                      *)
(***************************************************************************)
\* C26: every novelty with an identification that a tick has processed, allowed
\* or denied, reaches each movement_detected subscriber exactly once
C26_DenialPublished ==
    (last.ident /\ ~last.cancelled)
        => \A i \in DOMAIN last.invoked["movement_detected"] :
              last.invoked["movement_detected"][i] = 1

\* a step of SubscriberTick
IsTickStep ==
    /\ bus'.event_callbacks = bus.event_callbacks
    /\ app' = app \/ last'.cancelled

\* the tick just made, had every callback returned
AsIfReturned ==
    poll_module(StartOfTick(module_addresses[current_module_index + 1]),
                bus'.result, bus'.access, TRUE)

\* some callback that the tick awaited raised
HandlerRaised(outcomes, invoked) ==
    \E t \in Topics : \E i \in DOMAIN outcomes[t] :
        outcomes[t][i] = "raises" /\ invoked[t][i] > 0

\* C23: in a tick in which an awaited callback raises (and none is cancelled), every
\* callback of each topic is invoked once per publication of the topic, and the
\* module, the counters, the port and the index end as if every callback had returned
C23_HandlerIsolated ==
    [][(IsTickStep /\ ~last'.cancelled /\ HandlerRaised(bus'.outcomes, last'.invoked))
          => LET a == module_addresses[current_module_index + 1]
                 normal == AsIfReturned
             IN  /\ modules'[a] = normal.m
                 /\ consecutive_errors' = normal.consecutive_errors
                 /\ port_reopen_count' = normal.port_reopen_count
                 /\ is_initialized' = normal.is_initialized
                 /\ current_module_index' =
                        NextIndex(current_module_index, Len(module_addresses))
                 /\ last'.invoked = normal.invoked
                 /\ \A i \in DOMAIN last'.invoked["module_state_changed"] :
                        last'.invoked["module_state_changed"][i] = last'.pubs
                 /\ \A i \in DOMAIN last'.invoked["movement_detected"] :
                        last'.invoked["movement_detected"][i] = normal.movement_pubs
                 /\ app' = app]_vars

\* a tick whose first callback of a topic raised and whose second was still awaited
C23_Witness ==
    /\ ~last.cancelled
    /\ last.logged > 0
    /\ \E t \in Topics :
          /\ Len(last.invoked[t]) = 2
          /\ bus.outcomes[t] = <<"raises", "returns">>
          /\ last.invoked[t][2] > 0

\* C21: a tick that has read a valid reply has awaited every module_state_changed
\* callback, and has queued O1 when the reply was a novelty with an identification,
\* whenever the stop was requested
C21_TickCompletes ==
    last.valid
        => /\ \A i \in DOMAIN last.invoked["module_state_changed"] :
                 last.invoked["module_state_changed"][i] >= 1
           /\ last.ident => last.o1

\* the addresses _polling_loop took from self.modules
Loaded(a) == \E i \in DOMAIN module_addresses : module_addresses[i] = a

\* C22: while no stop is requested, no timeout, invalid reply, exception of the codec
\* or the serial layer, or failed reopen ends the polling task, and every loaded
\* module is polled again and again
C22_LoopNeverEnds ==
    /\ [](app.is_running /\ app.task = "spawned")
    /\ \A a \in Addresses : []<>(Loaded(a) => last.address = a)

\* the loop running on a bus of two modules after a port reopen that failed
C22_Witness ==
    /\ Len(module_addresses) = 2
    /\ app.is_running
    /\ ~is_initialized
    /\ last.reopen_calls > 0
    /\ ~last.transmitted

(***************************************************************************)
(* Registry snapshots                                                      *)
(***************************************************************************)
\* C31: the dict an observer holds still shows what it showed when it was taken
\* (and what the observer wrote into it), whatever the scheduler did since, and
\* nothing the observer wrote into it has changed the registry
C31_SnapshotIsolated ==
    snapshot.taken
        => /\ View(snapshot.refs) = snapshot.contents
           /\ ~snapshot.registry_altered

(***************************************************************************)
(* Publications of module_state_changed                                    *)
(***************************************************************************)
\* the changes of the polled module a tick made: its state went to online or to
\* error, and its barrier or sensor reading changed
StateChanges(before, after) ==
    (IF after.state # before.state /\ after.state \in {ONLINE, ERROR} THEN 1 ELSE 0)
      + (IF after.barrier_state # before.barrier_state
            \/ after.sensor_ddmm # before.sensor_ddmm THEN 1 ELSE 0)

\* C32: a tick publishes module_state_changed once for each change it made to the
\* polled module (state to online or to error; barrier or sensor reading), and not
\* at all when it changed none
C32_PublishedOnChange ==
    [][module_addresses # <<>>
          => last'.pubs = StateChanges(modules[PolledAddress], modules'[PolledAddress])]_vars

(***************************************************************************)
(* The pending queue under two threads                                     *)
(***************************************************************************)
\* C33: whatever the interleaving of the two threads' tests, appends and pops, the
\* queue of the module never holds two equal frames
C33_NoEqualFrames ==
    \A a \in DOMAIN modules :
        \A i, j \in DOMAIN modules[a].pending_commands :
            modules[a].pending_commands[i] = modules[a].pending_commands[j] => i = j

(***************************************************************************)
(* The open command                                                        *)
(***************************************************************************)
\* C34: the K1 frame of a module enters its queue only in a tick that polled this
\* module, read a novelty with an identification, and whose access decision was
\* allowed with the movement stored
C34_OpenOnlyWhenAllowed ==
    [][\A a \in DOMAIN modules :
          (/\ continue_sequence(a) \in Range(modules'[a].pending_commands)
           /\ continue_sequence(a) \notin Range(modules[a].pending_commands))
              => /\ IsTickStep
                 /\ a = PolledAddress
                 /\ bus'.access = "allowed"
                 /\ IsNoveltyReply(a, bus'.result)]_vars

\* a tick that stored a movement and queued K1
C34_Witness ==
    /\ last.k1
    /\ bus.access = "allowed"
    /\ \E a \in DOMAIN modules :
          continue_sequence(a) \in Range(modules[a].pending_commands)

(***************************************************************************)
(* Queued frames are sent once                                             *)
(***************************************************************************)
\* C35: a tick of a module with a queued frame sends the head of the queue and
\* removes it; when the poll fails the rest of the queue (or nothing, after an
\* escalation) is what remains, and when it succeeds the rest of the queue followed
\* by what the tick enqueued
C35_SentOnce ==
    [][(module_addresses # <<>> /\ Queue(PolledAddress) # <<>>)
          => LET a == PolledAddress
                 rest == Tail(Queue(a))
             IN  /\ last'.command = Head(Queue(a))
                 /\ ~last'.valid => QueueAfter(a) \in {rest, <<>>}
                 /\ ~last'.valid => Head(Queue(a)) \notin Range(QueueAfter(a))
                 /\ last'.valid => IsPrefix(rest, QueueAfter(a))]_vars

\* a tick that sent a queued frame, got no valid reply, and left a queue without it
C35_Witness ==
    /\ last.address # 0
    /\ last.transmitted
    /\ ~last.valid
    /\ last.command # read_status(last.address)
    /\ last.command \notin Range(modules[last.address].pending_commands)
    /\ modules[last.address].pending_commands # <<>>

\* C36: while the port is closed after a failed reopen, a poll fails without
\* transmitting and calls reopen once more; a reopen that fails leaves the bus
\* consecutive_errors incremented and port_reopen_count unchanged, a reopen that
\* succeeds sets the bus counter to 0 and counts one reopen; a poll on an open port
\* is transmitted.
C36_ReopenRetried ==
    [][TickStep /\ module_addresses # <<>>
          => IF is_initialized
             THEN last'.transmitted
             ELSE /\ ~last'.transmitted /\ ~last'.valid
                  /\ last'.reopen_calls = 1
                  /\ IF is_initialized'
                     THEN /\ consecutive_errors' = 0
                          /\ port_reopen_count' = port_reopen_count + 1
                     ELSE /\ consecutive_errors' = consecutive_errors + 1
                          /\ port_reopen_count' = port_reopen_count]_vars

\* a poll on the closed port did not transmit and its reopen brought the bus back
C36_Witness ==
    /\ last.address # 0 /\ ~last.transmitted /\ last.reopen_calls = 1
    /\ is_initialized /\ consecutive_errors = 0 /\ port_reopen_count = 1

\* C37: once stop() has returned (the application is stopped), no step writes a
\* frame to the port: neither a poll of the scheduler nor an immediate send_command.
C37_SilentAfterStop ==
    [][app.step = "stopped" /\ (sends' # sends \/ last' # last)
          => ~last'.transmitted]_vars

\* C38: a status reply STX AA S0 p ETX CS1 CS2 is read up to its own ETX, the byte
\* before the checksum, whatever the bytes of p, and the frame validates for its
\* address with data exactly p.
C38_Transparent ==
    /\ codec.fn \in {"read", "framed", "parsed"}
          => /\ codec.read.etx_received
             /\ codec.read.response = SubSeq(codec.frame, 1, Len(codec.frame) - 2)
    /\ codec.fn \in {"framed", "parsed"}
          => /\ codec.validation.valid
             /\ codec.validation.data = codec.payload

\* the read deadline poll_slave was called with: timeout_ms, or the port's
\* configured reply_timeout when the caller passed none
CalledDeadline(t) == IF call[t].timeout_ms # 0 THEN call[t].timeout_ms ELSE reply_timeout

\* C39: a poll that is reading reads with the deadline it was called with, and
\* when no poll_slave call is in progress the port's read timeout is reply_timeout.
C39_OwnDeadline ==
    /\ \A t \in Tasks : pc[t] = "read" => call[t].deadline = CalledDeadline(t)
    /\ (\A t \in Tasks : pc[t] = "idle") => port_timeout = reply_timeout

\* C40: no step closes the port while a poll is inside its flush-transmit-receive
\* cycle, holding the port lock: the poll finishes on the port it started with.
C40_CycleKeepsPort ==
    [][(\E t \in Tasks : InCycle(t) /\ lock = t) /\ is_initialized
          => is_initialized']_vars

====
